---- MODULE Spec2Model ----
(***************************************************************************)
(* A model of the phi-pi resonance simulations: the 1-D, 2-D and 3-D       *)
(* leapfrog field steppers (WaveCavity, Sim2D, Wave3D), the RK4 oscillator *)
(* runs (simulate, simulate_parametric), the run_once drivers and the      *)
(* process-wide random generator they all draw from.                       *)
(*                                                                         *)
(* Floating-point numbers are modelled as fixed-point integers in units of *)
(* 1/ONE; a product or quotient is truncated toward zero.  An integer      *)
(* of the program (a grid size, a step index, a loop counter) is a plain   *)
(* integer.                                                                *)
(***************************************************************************)
EXTENDS Integers, Sequences, FiniteSets, TLC

VARIABLES
    rng,      \* the state of the module-level generator of `random`
    sims,     \* the field simulation objects alive, by slot
    ctor,     \* per slot, the outcome of the last constructor call
    run,      \* the run function being executed (run_once, simulate, ...)
    done      \* the runs completed so far, in order, with what they returned

vars == <<rng, sims, ctor, run, done>>

(***************************************************************************)
(* Bounds of the model.                                                    *)
(***************************************************************************)
MaxSteps == 3
MaxRuns == 2
MaxN1 == 4
MaxN3 == 3
MaxW2 == 4
MaxRunSteps == 5
MaxSamples == 31
MaxQuietSteps == 12

(***************************************************************************)
(* Fixed-point arithmetic.                                                 *)
(***************************************************************************)
ONE == 10 * 10

Max(a, b) == IF a >= b THEN a ELSE b
Min(a, b) == IF a <= b THEN a ELSE b
Abs(a) == IF a >= 0 THEN a ELSE -a

\* Integer quotient truncated toward zero (the sign-symmetric rounding), as
\* a function of the two operands' values.
Trunc[x \in Int, y \in Int] ==
    IF (x >= 0) = (y > 0) THEN Abs(x) \div Abs(y) ELSE -(Abs(x) \div Abs(y))

Quot(a, b) == Trunc[a, b]

Mul(a, b) == Quot(a * b, ONE)
Div(a, b) == Quot(a * ONE, b)

\* math.sqrt / ** 0.5 of a non-negative fixed-point number.
Sqrt(a) == CHOOSE s \in 0..(a + ONE) : s * s <= a * ONE /\ (s + 1) * (s + 1) > a * ONE

PI == 314
\* PHI = (1.0 + 5.0 ** 0.5) / 2.0
PHI == Div(ONE + Sqrt(5 * ONE), 2 * ONE)
PHI_PI == Mul(PHI, PI)

\* math.sin: the parabolic approximation on each half period.
SinOf[a \in Int] ==
    LET m == a % (2 * PI)
        h == IF m <= PI THEN m ELSE m - PI
        v == (4 * h * (PI - h) * ONE) \div (PI * PI)
    IN  IF m <= PI THEN v ELSE -v

Sin(a) == SinOf[a]

Cos(a) == Sin(a + PI \div 2)

(***************************************************************************)
(* The process-wide generator: random.seed, random.gauss, random.random.   *)
(* Its output stream is a fixed function of the seed and of the number of  *)
(* values drawn since the seed was set.                                    *)
(***************************************************************************)
DevTable == <<-120, 35, 80, -45, 10, 150, -90>>

Deviate(g) == DevTable[((g.seed * g.seed + 3 * g.pos + g.seed * g.pos) % 7) + 1]

Uniform(g) == ((g.seed * 37 + g.pos * 61) % 10) * 10 + 5

Advance(g) == [g EXCEPT !.pos = @ + 1]

SeedRng(seed) == [seed |-> seed, pos |-> 0]

\* A random.seed that leaves the generator as it finds it.
RandomSeedSkipped(seed) == rng

\* random.seed(seed) as the program calls it
RandomSeed(seed) == SeedRng(seed)

\* The seeds the interpreter may have given the generator at start-up.
EntropySeeds == {90, 91}

(***************************************************************************)
(* Grids.  A buffer is a function from the flat node index to the value;   *)
(* shape = <<nx, ny, nz>> and idx = (k*ny + j)*nx + i as in Wave3D.idx.    *)
(* The three buffers of a simulation live in bufs[1..3]; u_prev, u and     *)
(* u_next are references into it (Python list references).                 *)
(***************************************************************************)
Size(shape) == shape[1] * shape[2] * shape[3]
Nodes(shape) == 0..(Size(shape) - 1)
Idx(shape, i, j, k) == (k * shape[2] + j) * shape[1] + i
CoordI(shape, idx) == idx % shape[1]
CoordJ(shape, idx) == (idx \div shape[1]) % shape[2]
CoordK(shape, idx) == idx \div (shape[1] * shape[2])
Coord(shape, idx, axis) ==
    IF axis = 1 THEN CoordI(shape, idx)
    ELSE IF axis = 2 THEN CoordJ(shape, idx) ELSE CoordK(shape, idx)
Stride(shape, axis) ==
    IF axis = 1 THEN 1 ELSE IF axis = 2 THEN shape[1] ELSE shape[1] * shape[2]

Zeros(shape) == [x \in Nodes(shape) |-> 0]

NoSim == [dim |-> 0]

\* A rotation that forgets to hand the old u_prev buffer to u_next.
RotateAliased(s) == [s EXCEPT !.u_prev = s.u, !.u = s.u_next]

\* self.u_prev, self.u, self.u_next = self.u, self.u_next, self.u_prev
Rotate(s) == [s EXCEPT !.u_prev = s.u, !.u = s.u_next, !.u_next = s.u_prev]

\* The stability limit 1/sqrt(dim) each constructor compares r against.
CourantLimit(dim) == IF dim = 1 THEN ONE ELSE Div(ONE, Sqrt(dim * ONE))

\* A test that also rejects a Courant number equal to the limit.
CourantViolatedAtLimit(dim, r) == r >= CourantLimit(dim)

\* The constructors' test: if self.r > limit: raise ValueError.
CourantViolated(dim, r) == r > CourantLimit(dim)

(***************************************************************************)
(* WaveCavity (1-D).                                                       *)
(***************************************************************************)
\* g = p.pml_max * (i + 1) / L
CavityRamp(p, i) == Quot(p.pml_max * (i + 1), p.pml_len)

\* A damping profile that adds the boundary ramp in both modes.
CavityGammaRamped(p, mode) ==
    [x \in 0..(p.N - 1) |->
        p.gamma_interior
        + (IF x < p.pml_len THEN CavityRamp(p, x) ELSE 0)
        + (IF p.N - 1 - x < p.pml_len
           THEN CavityRamp(p, p.N - 1 - x) ELSE 0)]

\* self.gamma after the constructor's loop over range(L)
CavityGamma(p, mode) ==
    [x \in 0..(p.N - 1) |->
        p.gamma_interior
        + (IF mode = "open" /\ x < p.pml_len THEN CavityRamp(p, x) ELSE 0)
        + (IF mode = "open" /\ p.N - 1 - x < p.pml_len
           THEN CavityRamp(p, p.N - 1 - x) ELSE 0)]

\* A constructor that tests the Courant number before it reseeds: a
\* rejected call leaves the generator as it found it.
CavityNewValidatingFirst(p, mode) ==
    LET r == Div(Mul(p.c, p.dt), p.dx)
        shape == <<p.N, 1, 1>>
    IN  IF CourantViolated(1, r)
        THEN [rng |-> rng, dim |-> 1, r |-> r, ok |-> FALSE, sim |-> NoSim]
        ELSE [rng |-> RandomSeed(p.seed), dim |-> 1, r |-> r, ok |-> TRUE,
              sim |-> [shape |-> shape, dim |-> 1, u_prev |-> 1, u |-> 2,
                       u_next |-> 3, r |-> r,
                       p |-> p,
                       mode |-> mode, lock_on |-> FALSE,
                       bufs |-> <<Zeros(shape), Zeros(shape), Zeros(shape)>>,
                       gamma |-> CavityGamma(p, mode),
                       omega |-> Mul(Mul(2 * ONE, PI), p.f_cycles),
                       phase |-> PHI_PI,
                       src |-> Max(1, Min(p.N - 2, p.i_src)),
                       own_seed |-> p.seed,
                       n |-> 0, consumed |-> <<>>,
                       pre_u |-> Zeros(shape), computed |-> Zeros(shape),
                       stepMode |-> mode]]

\* WaveCavity.__init__: the generator is reseeded first, then r is tested.
CavityNew(p, mode) ==
    LET r == Div(Mul(p.c, p.dt), p.dx)
        shape == <<p.N, 1, 1>>
    IN  IF CourantViolated(1, r)
        THEN [rng |-> RandomSeed(p.seed), dim |-> 1, r |-> r, ok |-> FALSE, sim |-> NoSim]
        ELSE [rng |-> RandomSeed(p.seed), dim |-> 1, r |-> r, ok |-> TRUE,
              sim |-> [shape |-> shape, dim |-> 1, u_prev |-> 1, u |-> 2,
                       u_next |-> 3, r |-> r,
                       p |-> p,
                       mode |-> mode, lock_on |-> FALSE,
                       bufs |-> <<Zeros(shape), Zeros(shape), Zeros(shape)>>,
                       gamma |-> CavityGamma(p, mode),
                       omega |-> Mul(Mul(2 * ONE, PI), p.f_cycles),
                       phase |-> PHI_PI,
                       src |-> Max(1, Min(p.N - 2, p.i_src)),
                       own_seed |-> p.seed,
                       n |-> 0, consumed |-> <<>>,
                       pre_u |-> Zeros(shape), computed |-> Zeros(shape),
                       stepMode |-> mode]]

\* An interior update done in place: node x reads, for its left neighbour,
\* the value the loop has just written instead of the pre-step value.
CavityInteriorInPlace(s, U, UP, UN) ==
    LET p == s.p
        r2 == Mul(s.r, s.r)
        new[x \in 0..(p.N - 1)] ==
            IF 1 <= x /\ x <= p.N - 2
            THEN LET lap == U[x + 1] - 2 * U[x] + new[x - 1]
                     g == s.gamma[x]
                 IN  Mul(2 * ONE - Mul(2 * g, p.dt), U[x])
                     - Mul(ONE - Mul(g, p.dt), UP[x])
                     + Mul(r2, lap)
            ELSE UN[x]
    IN  new

\* The interior update of WaveCavity.step, written into the u_next buffer.
CavityInterior(s, U, UP, UN) ==
    LET p == s.p
        r2 == Mul(s.r, s.r)
    IN  [x \in 0..(p.N - 1) |->
            IF 1 <= x /\ x <= p.N - 2
            THEN LET lap == U[x + 1] - 2 * U[x] + U[x - 1]
                     g == s.gamma[x]
                 IN  Mul(2 * ONE - Mul(2 * g, p.dt), U[x])
                     - Mul(ONE - Mul(g, p.dt), UP[x])
                     + Mul(r2, lap)
            ELSE UN[x]]

\* A source whose amplitude noise is added to the force instead of scaling
\* it, so that it forces the field even with A = 0.
CavitySourceAdditive(s, B, drive) ==
    LET i0 == Max(1, Min(s.p.N - 2, s.p.i_src))
    IN  [B EXCEPT ![i0] = @ + Mul(Mul(s.p.dt, s.p.dt), drive + s.p.sigma_amp)]

\* A source that indexes the buffer with i_src as a list index would: a
\* negative index counts from the end, and nothing keeps it off the ends.
CavitySourceUnclamped(s, B, drive) ==
    LET i0 == IF s.p.i_src < 0 THEN Max(0, s.p.N + s.p.i_src)
              ELSE Min(s.p.N - 1, s.p.i_src)
    IN  [B EXCEPT ![i0] = @ + Mul(Mul(s.p.dt, s.p.dt), drive)]

\* i0 = max(1, min(N - 2, p.i_src)); self.u_next[i0] += (p.dt * p.dt) * s
CavitySource(s, B, drive) ==
    LET i0 == Max(1, Min(s.p.N - 2, s.p.i_src))
    IN  [B EXCEPT ![i0] = @ + Mul(Mul(s.p.dt, s.p.dt), drive)]

\* A boundary branch that copies the inward neighbour in both modes.
CavityEdgesCopying(s, B, U) ==
    LET N == s.p.N
    IN  [x \in 0..(N - 1) |->
            IF x = N - 1 THEN U[N - 2] ELSE IF x = 0 THEN U[1] ELSE B[x]]

\* The boundary branch of WaveCavity.step.
CavityEdges(s, B, U) ==
    LET N == s.p.N
    IN  IF s.mode = "confined"
        THEN [x \in 0..(N - 1) |-> IF x = 0 \/ x = N - 1 THEN 0 ELSE B[x]]
        ELSE [x \in 0..(N - 1) |->
                IF x = N - 1 THEN U[N - 2] ELSE IF x = 0 THEN U[1] ELSE B[x]]

\* A step whose boundary handling runs before the source injection.
CavityStepEdgesFirst(s, n, g) ==
    LET p == s.p
        z1 == Deviate(g)
        g1 == Advance(g)
        phase1 == s.phase + Mul(z1, p.phase_jitter)
        z2 == Deviate(g1)
        g2 == Advance(g1)
        amp_noise == ONE + Mul(p.sigma_amp, z2)
        drive == Mul(Mul(p.A, amp_noise), Sin(s.omega * n + phase1))
        U == s.bufs[s.u]
        UP == s.bufs[s.u_prev]
        UN == s.bufs[s.u_next]
        B == CavitySource(s, CavityEdges(s, CavityInterior(s, U, UP, UN), U), drive)
        s1 == [s EXCEPT !.phase = phase1,
                        !.bufs = [@ EXCEPT ![s.u_next] = B],
                        !.n = @ + 1,
                        !.consumed = @ \o <<g, g1>>,
                        !.pre_u = U,
                        !.computed = B,
                        !.stepMode = s.mode]
    IN  [rng |-> g2, sim |-> Rotate(s1)]

\* WaveCavity.step(n) drawing from generator g: the new object and generator.
CavityStep(s, n, g) ==
    LET p == s.p
        z1 == Deviate(g)
        g1 == Advance(g)
        phase1 == s.phase + Mul(z1, p.phase_jitter)
        z2 == Deviate(g1)
        g2 == Advance(g1)
        amp_noise == ONE + Mul(p.sigma_amp, z2)
        drive == Mul(Mul(p.A, amp_noise), Sin(s.omega * n + phase1))
        U == s.bufs[s.u]
        UP == s.bufs[s.u_prev]
        UN == s.bufs[s.u_next]
        B == CavityEdges(s, CavitySource(s, CavityInterior(s, U, UP, UN), drive), U)
        s1 == [s EXCEPT !.phase = phase1,
                        !.bufs = [@ EXCEPT ![s.u_next] = B],
                        !.n = @ + 1,
                        !.consumed = @ \o <<g, g1>>,
                        !.pre_u = U,
                        !.computed = B,
                        !.stepMode = s.mode]
    IN  [rng |-> g2, sim |-> Rotate(s1)]

(***************************************************************************)
(* Wave3D (3-D).                                                           *)
(***************************************************************************)
Min3(a, b, c) == Min(a, Min(b, c))

\* d = min(i, j, k, N-1-i, N-1-j, N-1-k)
Depth3D(N, i, j, k) == Min(Min3(i, j, k), Min3(N - 1 - i, N - 1 - j, N - 1 - k))

\* g = 0.0; if d < L: g = p.pml_max * (L - d) / L
Ramp3D(p, d) == IF d < p.pml_len THEN Quot(p.pml_max * (p.pml_len - d), p.pml_len) ELSE 0

\* self.gamma after the constructor's triple loop
Gamma3D(p, mode) ==
    LET shape == <<p.N, p.N, p.N>>
    IN  [x \in Nodes(shape) |->
            p.gamma_interior
            + (IF mode = "open"
               THEN Ramp3D(p, Depth3D(p.N, CoordI(shape, x), CoordJ(shape, x),
                                      CoordK(shape, x)))
               ELSE 0)]

\* Wave3D.__init__
Wave3DNew(p, mode) ==
    LET r == Div(Mul(p.c, p.dt), p.dx)
        shape == <<p.N, p.N, p.N>>
    IN  IF CourantViolated(3, r)
        THEN [rng |-> RandomSeed(p.seed), dim |-> 3, r |-> r, ok |-> FALSE, sim |-> NoSim]
        ELSE [rng |-> RandomSeed(p.seed), dim |-> 3, r |-> r, ok |-> TRUE,
              sim |-> [shape |-> shape, dim |-> 3, u_prev |-> 1, u |-> 2,
                       u_next |-> 3, r |-> r,
                       p |-> p,
                       mode |-> mode, lock_on |-> FALSE,
                       bufs |-> <<Zeros(shape), Zeros(shape), Zeros(shape)>>,
                       gamma |-> Gamma3D(p, mode),
                       omega |-> Mul(Mul(2 * ONE, PI), p.f_cycles),
                       phase |-> PHI_PI,
                       src |-> Idx(shape, p.N \div 2, p.N \div 2, p.N \div 2),
                       own_seed |-> p.seed,
                       n |-> 0, consumed |-> <<>>,
                       pre_u |-> Zeros(shape), computed |-> Zeros(shape),
                       stepMode |-> mode]]

\* The interior update of Wave3D.step (k, j, i in range(1, N-1)).
Interior3D(s, U, UP, UN) ==
    LET p == s.p
        N == p.N
        r2 == Mul(s.r, s.r)
        inner(c) == 1 <= c /\ c <= N - 2
    IN  [x \in Nodes(s.shape) |->
            IF inner(CoordI(s.shape, x)) /\ inner(CoordJ(s.shape, x))
               /\ inner(CoordK(s.shape, x))
            THEN LET lap == U[x - 1] + U[x + 1] + U[x - N] + U[x + N]
                            + U[x - N * N] + U[x + N * N] - 6 * U[x]
                     g == s.gamma[x]
                 IN  Mul(2 * ONE - Mul(2 * g, p.dt), U[x])
                     - Mul(ONE - Mul(g, p.dt), UP[x])
                     + Mul(r2, lap)
            ELSE UN[x]]

\* idx0 = self.idx(isrc, jsrc, ksrc); self.u_next[idx0] += (p.dt * p.dt) * s
Source3D(s, B, drive) ==
    [B EXCEPT ![s.src] = @ + Mul(Mul(s.p.dt, s.p.dt), drive)]

\* The boundary branch of Wave3D.step.  Confined: the first loop zeroes
\* i = 0 and i = N-1 for k in (0, N-1) only, the second zeroes j = 0 and
\* j = N-1 for every k.  Open: the first loop copies into i = 0 and i = N-1
\* for every (k, j), the second, run after it, into j = 0 and j = N-1 for
\* every (k, i); no loop writes a node by its k coordinate.
Edges3D(s, B, U) ==
    LET N == s.p.N
        sh == s.shape
        edge(c) == c = 0 \/ c = N - 1
    IN  IF s.mode = "confined"
        THEN [x \in Nodes(sh) |->
                IF edge(CoordJ(sh, x))
                   \/ (edge(CoordK(sh, x)) /\ edge(CoordI(sh, x)))
                THEN 0 ELSE B[x]]
        ELSE [x \in Nodes(sh) |->
                IF CoordJ(sh, x) = N - 1 THEN U[x - (N - 1) * N + (N - 2) * N]
                ELSE IF CoordJ(sh, x) = 0 THEN U[x + N]
                ELSE IF CoordI(sh, x) = N - 1 THEN U[x - (N - 1) + (N - 2)]
                ELSE IF CoordI(sh, x) = 0 THEN U[x + 1]
                ELSE B[x]]

\* Wave3D.step(n)
Wave3DStep(s, n, g) ==
    LET p == s.p
        z1 == Deviate(g)
        g1 == Advance(g)
        phase1 == s.phase + Mul(z1, p.phase_jitter)
        z2 == Deviate(g1)
        g2 == Advance(g1)
        amp_noise == ONE + Mul(p.sigma_amp, z2)
        drive == Mul(Mul(p.A, amp_noise), Sin(s.omega * n + phase1))
        U == s.bufs[s.u]
        UP == s.bufs[s.u_prev]
        UN == s.bufs[s.u_next]
        B == Edges3D(s, Source3D(s, Interior3D(s, U, UP, UN), drive), U)
        s1 == [s EXCEPT !.phase = phase1,
                        !.bufs = [@ EXCEPT ![s.u_next] = B],
                        !.n = @ + 1,
                        !.consumed = @ \o <<g, g1>>,
                        !.pre_u = U,
                        !.computed = B,
                        !.stepMode = s.mode]
    IN  [rng |-> g2, sim |-> Rotate(s1)]

(***************************************************************************)
(* Sim2D (2-D, the terminal demo).  Its parameters are attributes set by   *)
(* the constructor; p holds them.  Row y of a buffer is nodes y*W..y*W+W-1.*)
(***************************************************************************)
Sim2DSeed == 7
Sim2DLockGain == 15

\* The attribute values Sim2D.__init__ assigns.
Sim2DAttrs(W, H) ==
    [seed |-> Sim2DSeed, gamma_interior |-> 0, c |-> ONE, dt |-> 45, dx |-> ONE,
     f_cycles |-> 2, sigma_amp |-> 10,
     phase_jitter |-> 2, A |-> 80, W |-> W, H |-> H,
     detune |-> ONE]

\* Sim2D.__init__: no test of r; random.seed(7) is its last statement.
Sim2DNew(W, H) ==
    LET p == Sim2DAttrs(W, H)
        r == Div(Mul(p.c, p.dt), p.dx)
        shape == <<W, H, 1>>
    IN  [rng |-> RandomSeed(Sim2DSeed), dim |-> 2, r |-> r, ok |-> TRUE,
         sim |-> [shape |-> shape, dim |-> 2, u_prev |-> 1, u |-> 2,
                  u_next |-> 3, r |-> r,
                  p |-> p,
                  mode |-> "confined", lock_on |-> TRUE,
                  bufs |-> <<Zeros(shape), Zeros(shape), Zeros(shape)>>,
                  gamma |-> [x \in Nodes(shape) |-> p.gamma_interior],
                  omega |-> Mul(Mul(2 * ONE, PI), p.f_cycles),
                  phase |-> PHI_PI,
                  src |-> Idx(shape, W \div 2, H \div 2, 0),
                  own_seed |-> Sim2DSeed,
                  n |-> 0, consumed |-> <<>>,
                  pre_u |-> Zeros(shape), computed |-> Zeros(shape),
                  stepMode |-> "confined"]]

\* The interior update of Sim2D.step (y in range(1, H-1), x in range(1, W-1)).
Interior2D(s, U, UP, UN) ==
    LET p == s.p
        W == p.W
        H == p.H
        r2 == Mul(s.r, s.r)
    IN  [v \in Nodes(s.shape) |->
            IF 1 <= CoordI(s.shape, v) /\ CoordI(s.shape, v) <= W - 2
               /\ 1 <= CoordJ(s.shape, v) /\ CoordJ(s.shape, v) <= H - 2
            THEN LET lap == U[v - 1] + U[v + 1] + U[v - W] + U[v + W] - 4 * U[v]
                     g == p.gamma_interior
                 IN  Mul(2 * ONE - Mul(2 * g, p.dt), U[v])
                     - Mul(ONE - Mul(g, p.dt), UP[v])
                     + Mul(r2, lap)
            ELSE UN[v]]

\* self.u_next[self.sy][self.sx] += (self.dt*self.dt) * s
Source2D(s, B, drive) ==
    [B EXCEPT ![s.src] = @ + Mul(Mul(s.p.dt, s.p.dt), drive)]

\* The boundary branch of Sim2D.step: the loop over x (rows 0 and H-1), then
\* the loop over y (columns 0 and W-1), which overwrites the corners.
Edges2D(s, B, U) ==
    LET W == s.p.W
        H == s.p.H
        sh == s.shape
    IN  IF s.mode = "confined"
        THEN [v \in Nodes(sh) |->
                IF CoordI(sh, v) = 0 \/ CoordI(sh, v) = W - 1
                   \/ CoordJ(sh, v) = 0 \/ CoordJ(sh, v) = H - 1
                THEN 0 ELSE B[v]]
        ELSE [v \in Nodes(sh) |->
                IF CoordI(sh, v) = W - 1 THEN U[v - 1]
                ELSE IF CoordI(sh, v) = 0 THEN U[v + 1]
                ELSE IF CoordJ(sh, v) = H - 1 THEN U[v - W]
                ELSE IF CoordJ(sh, v) = 0 THEN U[v + W]
                ELSE B[v]]

\* Sim2D.step(n)
Sim2DStep(s, n, g) ==
    LET p == s.p
        z1 == Deviate(g)
        g1 == Advance(g)
        jitter == Mul(p.phase_jitter, z1)
        phase1 == IF s.lock_on
                  THEN s.phase + (Mul(-Sim2DLockGain, Sin(s.phase - PHI_PI)) + jitter)
                  ELSE s.phase + jitter
        z2 == Deviate(g1)
        g2 == Advance(g1)
        amp_noise == ONE + Mul(p.sigma_amp, z2)
        drive == Mul(Mul(p.A, amp_noise), Sin(Mul(p.detune, s.omega) * n + phase1))
        U == s.bufs[s.u]
        UP == s.bufs[s.u_prev]
        UN == s.bufs[s.u_next]
        B == Edges2D(s, Source2D(s, Interior2D(s, U, UP, UN), drive), U)
        s1 == [s EXCEPT !.phase = phase1,
                        !.bufs = [@ EXCEPT ![s.u_next] = B],
                        !.n = @ + 1,
                        !.consumed = @ \o <<g, g1>>,
                        !.pre_u = U,
                        !.computed = B,
                        !.stepMode = s.mode]
    IN  [rng |-> g2, sim |-> Rotate(s1)]

(***************************************************************************)
(* Sequences of samples: statistics.fmean, max, slices.                    *)
(***************************************************************************)
RECURSIVE SumSeq(_)
SumSeq(q) == IF q = <<>> THEN 0 ELSE Head(q) + SumSeq(Tail(q))

\* max of a non-empty list
MaxSeq(q) == CHOOSE m \in {q[k] : k \in 1..Len(q)} : \A k \in 1..Len(q) : q[k] <= m

\* statistics.fmean of a non-empty list
FMean(q) == Quot(SumSeq(q), Len(q))

\* q[a:] and q[:b] for 0 <= a, b <= len(q)
From(q, a) == SubSeq(q, a + 1, Len(q))
Upto(q, b) == SubSeq(q, 1, b)

\* int(x) of a fixed-point number
IntOf(a) == Quot(a, ONE)

\* The smallest positive number of the model, standing for the 1e-6 and 1e-8
\* floors of phi_pi_wireless_sim.
Tiny == 1

(***************************************************************************)
(* simulate_parametric (phi_pi_parametric_sim.py).                         *)
(***************************************************************************)
GrowthMinSamples == 20

\* A burn-in test that also keeps the sample of step steps // 2.
BurnInPassedInclusive(n, steps) == n >= steps \div 2

\* if n > steps // 2: the test under which a step's sample is appended
BurnInPassed(n, steps) == n > steps \div 2

\* energy(x, v) = 0.5*v*v + 0.5*omega0*omega0*x*x + 0.25*beta*x*x*x*x
ParamEnergy(rn, x, v) ==
    Mul(Mul(50, v), v)
    + Mul(Mul(Mul(Mul(50, rn.omega0), rn.omega0), x), x)
    + Mul(Mul(Mul(Mul(Mul(25, rn.p.beta), x), x), x), x)

\* acc(...): it draws its additive noise from the generator at every call.
ParamAcc(rn, t_local, x_local, v_local, k_mod, gamma_eff, delta_phase, g) ==
    LET p == rn.p
        theta == PHI_PI + delta_phase
        drive == Mul(p.F0, Cos(Mul(rn.omega_d, t_local) + theta))
        a_noise == Mul(p.sigma_add, Deviate(g))
    IN  [rng |-> Advance(g),
         a |-> Mul(Mul(-2 * ONE, gamma_eff), v_local)
               - Mul(Mul(rn.omega0, rn.omega0) + k_mod, x_local)
               - Mul(p.beta, Mul(Mul(x_local, x_local), x_local))
               + drive + a_noise,
         used |-> g]

\* A start that seeds the generator from the seed field of the parameters.
ParamStartFieldSeed(locked, p, seed) ==
    LET omega0 == Mul(Mul(2 * ONE, PI), p.f0)
        omega_d == Mul(p.omega_drive_ratio, omega0)
        key == [seed |-> seed, p |-> p, fn |-> "simulate_parametric", flag |-> locked]
        g == RandomSeed(p.seed)
    IN  IF p.Q0 = 0 \/ p.dt = 0
        THEN [rng |-> g,
              run |-> [key |-> key, kind |-> "raised", err |-> "ZeroDivisionError"]]
        ELSE IF p.dt < 0
        THEN [rng |-> g,
              run |-> [key |-> key, kind |-> "raised", err |-> "ValueError"]]
        ELSE
        LET gamma0 == Max(0, Mul(Div(omega0, Mul(2 * ONE, p.Q0)),
                                 ONE - Mul(p.C_field, p.C_affect_gamma)))
        IN  [rng |-> g, run |->
            [x |-> p.x0_seed, v |-> p.v0_seed, p |-> p, n |-> 0,
             steps |-> IntOf(Div(p.T, p.dt)), omega0 |-> omega0, omega_d |-> omega_d,
             key |-> key,
             flag |-> locked, kind |-> "simulate_parametric", gamma0 |-> gamma0,
             K_eff |-> IF locked
                       THEN Mul(p.K_lock, ONE + Mul(p.C_field, p.C_affect_lock))
                       ELSE 0, delta |-> 0, t |-> 0,
             phase_jitter_scale |-> Mul(p.chaos_phase_sigma, Sqrt(p.dt)),
             E_vals |-> <<>>, x2_vals |-> <<>>,
             sampled |-> <<>>, stageNoise |-> <<>>, stepDraws |-> 0,
             traj |-> <<>>]]

\* The statements of simulate_parametric before its loop.  A zero Q0 or dt
\* divides by zero, a negative dt fails in math.sqrt.
ParamStart(locked, p, seed) ==
    LET omega0 == Mul(Mul(2 * ONE, PI), p.f0)
        omega_d == Mul(p.omega_drive_ratio, omega0)
        key == [seed |-> seed, p |-> p, fn |-> "simulate_parametric", flag |-> locked]
        g == RandomSeed(seed)
    IN  IF p.Q0 = 0 \/ p.dt = 0
        THEN [rng |-> g,
              run |-> [key |-> key, kind |-> "raised", err |-> "ZeroDivisionError"]]
        ELSE IF p.dt < 0
        THEN [rng |-> g,
              run |-> [key |-> key, kind |-> "raised", err |-> "ValueError"]]
        ELSE
        LET gamma0 == Max(0, Mul(Div(omega0, Mul(2 * ONE, p.Q0)),
                                 ONE - Mul(p.C_field, p.C_affect_gamma)))
        IN  [rng |-> g, run |->
            [x |-> p.x0_seed, v |-> p.v0_seed, p |-> p, n |-> 0,
             steps |-> IntOf(Div(p.T, p.dt)), omega0 |-> omega0, omega_d |-> omega_d,
             key |-> key,
             flag |-> locked, kind |-> "simulate_parametric", gamma0 |-> gamma0,
             K_eff |-> IF locked
                       THEN Mul(p.K_lock, ONE + Mul(p.C_field, p.C_affect_lock))
                       ELSE 0, delta |-> 0, t |-> 0,
             phase_jitter_scale |-> Mul(p.chaos_phase_sigma, Sqrt(p.dt)),
             E_vals |-> <<>>, x2_vals |-> <<>>,
             sampled |-> <<>>, stageNoise |-> <<>>, stepDraws |-> 0,
             traj |-> <<>>]]

\* A phase step whose random walk ignores the jitter scale.
ParamPhaseUnscaled(rn, g) ==
    LET p == rn.p
        z1 == Deviate(g)
        g1 == Advance(g)
        delta == rn.delta + z1
        z2 == Deviate(g1)
        theta_pump == PHI_PI + delta + p.phi_align
    IN  [rng |-> Advance(g1),
         k_mod |-> Mul(Mul(Mul(rn.omega0, rn.omega0), p.m_param),
                       Cos(Mul(Mul(2 * ONE, rn.omega_d), rn.t) + theta_pump)),
         gamma_eff |-> Max(0, rn.gamma0 - p.G_gain) + Mul(p.sigma_gamma, z2),
         delta |-> delta]

\* The loop body of simulate_parametric up to the integration: the phase
\* error, the effective damping and the stiffness modulation of this step,
\* with the generator as the two draws leave it.
ParamPhase(rn, g) ==
    LET p == rn.p
        z1 == Deviate(g)
        g1 == Advance(g)
        delta == IF rn.K_eff > 0
                 THEN rn.delta + (Mul(Mul(-rn.K_eff, Sin(rn.delta)), p.dt)
                                  + Mul(rn.phase_jitter_scale, z1))
                 ELSE rn.delta + Mul(rn.phase_jitter_scale, z1)
        z2 == Deviate(g1)
        theta_pump == PHI_PI + delta + p.phi_align
    IN  [rng |-> Advance(g1),
         k_mod |-> Mul(Mul(Mul(rn.omega0, rn.omega0), p.m_param),
                       Cos(Mul(Mul(2 * ONE, rn.omega_d), rn.t) + theta_pump)),
         gamma_eff |-> Max(0, rn.gamma0 - p.G_gain) + Mul(p.sigma_gamma, z2),
         delta |-> delta]

\* The arguments of the four calls of acc in one RK4 step: stage k is
\* evaluated at the state advanced by the slope of stage k - 1.
ParamStage2(rn, A1) ==
    [x |-> rn.x + Mul(Mul(50, rn.p.dt), rn.v),
     v |-> rn.v + Mul(Mul(50, rn.p.dt), A1.a),
     t |-> rn.t + Mul(50, rn.p.dt)]
ParamStage3(rn, A1, A2) ==
    [x |-> rn.x + Mul(Mul(50, rn.p.dt), rn.v + Mul(Mul(50, rn.p.dt), A1.a)),
     v |-> rn.v + Mul(Mul(50, rn.p.dt), A2.a),
     t |-> rn.t + Mul(50, rn.p.dt)]
ParamStage4(rn, A2, A3) ==
    [x |-> rn.x + Mul(rn.p.dt, rn.v + Mul(Mul(50, rn.p.dt), A2.a)),
     v |-> rn.v + Mul(rn.p.dt, A3.a),
     t |-> rn.t + rn.p.dt]

\* The rest of the loop body: the RK4 update from the four accelerations,
\* the time, and the sample after burn-in.  g is the generator the step
\* started from.
ParamAdvance(rn, g, ph, A1, A2, A3, A4) ==
    LET p == rn.p
        dt == p.dt
        n == rn.n
        half == Mul(50, dt)
        k1x == rn.v
        k2x == rn.v + Mul(half, A1.a)
        k3x == rn.v + Mul(half, A2.a)
        k4x == rn.v + Mul(dt, A3.a)
        sixth == Div(dt, 6 * ONE)
        x1 == rn.x + Mul(sixth, k1x + Mul(2 * ONE, k2x) + Mul(2 * ONE, k3x) + k4x)
        v1 == rn.v + Mul(sixth, A1.a + Mul(2 * ONE, A2.a) + Mul(2 * ONE, A3.a) + A4.a)
        keep == BurnInPassed(n, rn.steps)
    IN  [rn EXCEPT
            !.delta = ph.delta, !.x = x1, !.v = v1, !.t = @ + dt,
            !.n = n + 1,
            !.E_vals = IF keep THEN Append(@, ParamEnergy(rn, x1, v1)) ELSE @,
            !.x2_vals = IF keep THEN Append(@, Mul(x1, x1)) ELSE @,
            !.sampled = IF keep THEN Append(@, n) ELSE @,
            !.stageNoise = <<A1.used, A2.used, A3.used, A4.used>>,
            !.stepDraws = A4.rng.pos - g.pos,
            !.traj = Append(@, <<x1, v1, ph.delta>>)]

\* A growth ratio guarded at half the number of samples.
ParamGrowthHalfGuard(E_vals) ==
    IF Len(E_vals) >= GrowthMinSamples \div 2
    THEN LET m == Len(E_vals)
             E_head == FMean(Upto(E_vals, m \div 10))
             E_tail == FMean(From(E_vals, m + ((-m) \div 10)))
         IN  IF E_head > 0
             THEN [inf |-> FALSE, val |-> Div(E_tail, E_head)]
             ELSE [inf |-> TRUE, val |-> 0]
    ELSE [inf |-> FALSE, val |-> ONE]

\* growth_ratio: 1.0 below GrowthMinSamples samples, else tail mean over head
\* mean, infinite when the head mean is not positive.
ParamGrowth(E_vals) ==
    IF Len(E_vals) >= GrowthMinSamples
    THEN LET m == Len(E_vals)
             E_head == FMean(Upto(E_vals, m \div 10))
             E_tail == FMean(From(E_vals, m + ((-m) \div 10)))
         IN  IF E_head > 0
             THEN [inf |-> FALSE, val |-> Div(E_tail, E_head)]
             ELSE [inf |-> TRUE, val |-> 0]
    ELSE [inf |-> FALSE, val |-> ONE]

\* The statements of simulate_parametric after its loop: the dict returned.
ParamReturn(rn) ==
    [E_avg |-> IF rn.E_vals # <<>> THEN FMean(rn.E_vals) ELSE 0,
     E_peak |-> IF rn.E_vals # <<>> THEN MaxSeq(rn.E_vals) ELSE 0,
     x_rms |-> IF rn.x2_vals # <<>> THEN Sqrt(FMean(rn.x2_vals)) ELSE 0,
     growth_ratio |-> ParamGrowth(rn.E_vals)]

(***************************************************************************)
(* simulate (phi_pi_wireless_sim.py).                                      *)
(***************************************************************************)
\* _gamma_from_Q(omega0, Q) = omega0 / (2.0 * max(Q, 1e-6))
GammaFromQ(omega0, Q) == Div(omega0, Mul(2 * ONE, Max(Q, Tiny)))

Cube(x) == Mul(Mul(x, x), x)

\* A variant of simulate's derivatives whose lock term has the opposite sign,
\* pushing the phase error away from zero.
SimDerivativesAntiLock(rn, x, v, delta, local_t, noise) ==
    LET p == rn.p
        d_delta == IF rn.flag
                   THEN Mul(rn.K, Sin(delta)) + noise.phase
                   ELSE noise.phase
        drive == Mul(p.F0, Cos(Mul(rn.omega_d, local_t) + PHI_PI + delta))
                 + noise.drive
        a == 0 - Mul(Mul(2 * ONE, rn.gamma) - p.G_gain, v)
             - Mul(Mul(rn.omega0, rn.omega0), x)
             - Mul(p.beta, Cube(x))
             + drive
    IN  [x |-> v, v |-> a, d |-> d_delta, used |-> noise.at, drv |-> drive]

\* derivatives(x, v, delta, local_t): noise is the pair drawn by the
\* enclosing loop iteration, read here and not drawn again.
SimDerivatives(rn, x, v, delta, local_t, noise) ==
    LET p == rn.p
        d_delta == IF rn.flag
                   THEN Mul(-rn.K, Sin(delta)) + noise.phase
                   ELSE noise.phase
        drive == Mul(p.F0, Cos(Mul(rn.omega_d, local_t) + PHI_PI + delta))
                 + noise.drive
        a == 0 - Mul(Mul(2 * ONE, rn.gamma) - p.G_gain, v)
             - Mul(Mul(rn.omega0, rn.omega0), x)
             - Mul(p.beta, Cube(x))
             + drive
    IN  [x |-> v, v |-> a, d |-> d_delta, used |-> noise.at, drv |-> drive]

\* The statements of simulate before its loop.  The first value of delta is
\* drawn from the generator just seeded.
SimStart(lock, p, seed) ==
    LET omega0 == Mul(Mul(2 * ONE, PI), p.f0)
        g == RandomSeed(seed)
        key == [seed |-> seed, p |-> p, fn |-> "simulate", flag |-> lock]
    IN  IF p.dt = 0
        THEN [rng |-> Advance(g),
              run |-> [key |-> key, kind |-> "raised", err |-> "ZeroDivisionError"]]
        ELSE
        [rng |-> Advance(g), run |->
        [x |-> 0, v |-> 0, p |-> p, gamma |-> Max(Tiny, Mul(GammaFromQ(omega0, p.Q0),
                                 ONE - Mul(p.C_affect_gamma, p.C_field))),
         n |-> 0, steps |-> IntOf(Div(p.T, p.dt)),
         omega0 |-> omega0,
         omega_d |-> Mul(omega0, p.omega_drive_ratio),
         key |-> key, flag |-> lock,
         kind |-> "simulate",
         delta |-> Mul(Mul(Uniform(g) - 50, 2 * ONE), PI), t |-> 0, stageNoise |-> <<>>,
         stepDraws |-> 0, traj |-> <<>>,
         K |-> IF lock THEN Mul(p.K_lock, ONE + Mul(p.C_affect_lock, p.C_field))
               ELSE 0, energy_hist |-> <<>>,
         drive_power_hist |-> <<>>, diss_power_hist |-> <<>>, x_hist |-> <<>>,
         recorded |-> <<>>]]

\* Noise terms whose phase deviate is drawn only when the lock is engaged.
SimNoiseLockOnly(rn, g) ==
    LET g1 == IF rn.flag THEN Advance(g) ELSE g
    IN  [rng |-> Advance(g1),
         phase |-> IF rn.flag
                   THEN Mul(Mul(rn.p.chaos_phase_sigma, Deviate(g)), Sqrt(rn.p.dt))
                   ELSE 0,
         drive |-> Mul(Mul(rn.p.sigma_drive, Deviate(g1)), Sqrt(rn.p.dt)),
         at |-> g1]

\* The two noise terms of one loop iteration of simulate, drawn from g: the
\* second is read from the generator the first draw leaves.
SimNoise(rn, g) ==
    [rng |-> Advance(Advance(g)),
     phase |-> Mul(Mul(rn.p.chaos_phase_sigma, Deviate(g)), Sqrt(rn.p.dt)),
     drive |-> Mul(Mul(rn.p.sigma_drive, Deviate(Advance(g))), Sqrt(rn.p.dt)),
     at |-> Advance(g)]

\* The state a later RK4 stage is evaluated at: the state of the run
\* advanced by h times the slopes D.
SimStage(rn, h, D) ==
    [x |-> rn.x + Mul(h, D.x),
     v |-> rn.v + Mul(h, D.v), delta |-> rn.delta + Mul(h, D.d),
     t |-> rn.t + h]

\* The rest of the loop body: the RK4 update from the four slopes, the
\* energetics and the histories.  g is the generator the step started from.
SimAdvance(rn, g, noise, D1, D2, D3, D4) ==
    LET p == rn.p
        dt == p.dt
        sixth == Div(dt, 6 * ONE)
        xn == rn.x + Mul(sixth, D1.x + 2 * D2.x + 2 * D3.x + D4.x)
        vn == rn.v + Mul(sixth, D1.v + 2 * D2.v + 2 * D3.v + D4.v)
        dn == rn.delta + Mul(sixth, D1.d + 2 * D2.d + 2 * D3.d + D4.d)
        drive_inst == Div(D1.drv + 2 * D2.drv + 2 * D3.drv + D4.drv, 6 * ONE)
        energy_inst == Mul(50, Mul(vn, vn) + Mul(Mul(rn.omega0, rn.omega0), Mul(xn, xn)))
                       + Mul(Mul(25, p.beta), Mul(Mul(xn, xn), Mul(xn, xn)))
    IN  [rn EXCEPT
            !.x = xn, !.v = vn, !.delta = dn, !.t = @ + dt,
            !.n = @ + 1,
            !.energy_hist = Append(@, energy_inst),
            !.drive_power_hist = Append(@, Mul(drive_inst, vn)),
            !.diss_power_hist = Append(@, Mul(Mul(2 * ONE, rn.gamma), Mul(vn, vn))),
            !.x_hist = Append(@, xn),
            !.recorded = Append(@, rn.n),
            !.stageNoise = <<D1.used, D2.used, D3.used, D4.used>>,
            !.stepDraws = noise.rng.pos - g.pos,
            !.traj = Append(@, <<xn, vn, dn>>)]

\* [xx * xx for xx in q]
Squares(q) == [k \in 1..Len(q) |-> Mul(q[k], q[k])]

\* The statements of simulate after its loop, for a non-empty history.
SimReturn(rn) ==
    LET half == Len(rn.energy_hist) \div 2
        P_in_avg == FMean(From(rn.drive_power_hist, half))
        P_diss_avg == FMean(From(rn.diss_power_hist, half))
        denom == IF Abs(P_in_avg) > 0 THEN Abs(P_in_avg) ELSE Tiny
    IN  [gamma |-> rn.gamma,
         omega0 |-> rn.omega0,
         omega_d |-> rn.omega_d,
         E_avg |-> FMean(From(rn.energy_hist, half)),
         E_peak |-> MaxSeq(From(rn.energy_hist, half)),
         x_rms |-> Sqrt(FMean(Squares(From(rn.x_hist, half)))),
         K |-> rn.K, P_in_avg |-> P_in_avg,
         P_diss_avg |-> P_diss_avg, eff_proxy |-> Max(0, Min(2 * ONE, Div(Abs(P_diss_avg), denom)))]

(***************************************************************************)
(* energy() of the field simulations and run_once (wave_cavity_phi_pi.py,  *)
(* wave3d_phi_pi.py).                                                      *)
(***************************************************************************)
RECURSIVE SumOver(_, _)
SumOver(f, S) ==
    IF S = {} THEN 0
    ELSE LET x == CHOOSE y \in S : TRUE IN f[x] + SumOver(f, S \ {x})

\* The nodes the energy loops visit: range(1, N - 1) on every axis in use.
Interior(s) ==
    {x \in Nodes(s.shape) :
        \A axis \in 1..s.dim :
            Coord(s.shape, x, axis) >= 1 /\ Coord(s.shape, x, axis) <= s.shape[axis] - 2}

\* WaveCavity.energy
CavityEnergy(s) ==
    LET p == s.p
        U == s.bufs[s.u]
        UP == s.bufs[s.u_prev]
        vel == [x \in Interior(s) |-> Div(U[x] - UP[x], p.dt)]
        ux == [x \in Interior(s) |-> Div(Mul(50, U[x + 1] - U[x - 1]), p.dx)]
        v2_sum == SumOver([x \in Interior(s) |-> Mul(vel[x], vel[x])], Interior(s))
        ux2_sum == SumOver([x \in Interior(s) |-> Mul(ux[x], ux[x])], Interior(s))
    IN  Mul(Mul(50, v2_sum + Mul(Mul(p.c, p.c), ux2_sum)), p.dx)

\* Wave3D.energy
Energy3D(s) ==
    LET p == s.p
        N == p.N
        U == s.bufs[s.u]
        UP == s.bufs[s.u_prev]
        vel == [x \in Interior(s) |-> Div(U[x] - UP[x], p.dt)]
        grad(x, d) == Div(Mul(50, U[x + d] - U[x - d]), p.dx)
        v2_sum == SumOver([x \in Interior(s) |-> Mul(vel[x], vel[x])], Interior(s))
        ux2_sum == SumOver([x \in Interior(s) |->
                               Mul(grad(x, 1), grad(x, 1))
                               + Mul(grad(x, N), grad(x, N))
                               + Mul(grad(x, N * N), grad(x, N * N))], Interior(s))
    IN  Mul(Mul(50, v2_sum + Mul(Mul(p.c, p.c), ux2_sum)), Cube(p.dx))

\* run_once(mode, p) up to its loop: the constructor call, which may raise.
RunOnceStart(dim, mode, p) ==
    LET made == IF dim = 1 THEN CavityNew(p, mode) ELSE Wave3DNew(p, mode)
        key == [dim |-> dim, p |-> p, mode |-> mode, fn |-> "run_once"]
    IN  IF ~made.ok
        THEN [rng |-> made.rng,
              run |-> [key |-> key, kind |-> "raised", err |-> "ValueError"]]
        ELSE [rng |-> made.rng,
              run |-> [sim |-> made.sim, n |-> 0, steps |-> p.steps,
                       key |-> key, kind |-> "run_once",
                       sampled |-> <<>>, traj |-> <<>>, energies |-> <<>>]]

\* sim.energy() of whichever class run_once constructed.
RunOnceEnergy(s) == IF s.dim = 1 THEN CavityEnergy(s) ELSE Energy3D(s)

\* One iteration of the loop of run_once: res is what step(n) left, e the
\* energy read after it, appended after burn-in.
RunOnceStep(rn, res, e) ==
    LET keep == BurnInPassed(rn.n, rn.steps)
    IN  [rng |-> res.rng,
         run |-> [rn EXCEPT
                    !.sim = res.sim,
                    !.n = @ + 1,
                    !.energies = IF keep THEN Append(@, e) ELSE @,
                    !.sampled = IF keep THEN Append(@, rn.n) ELSE @,
                    !.traj = Append(@, res.sim.bufs[res.sim.u])]]

\* A return whose fallback covers the whole pair: no samples, two zeros.
RunOnceReturnZeros(rn) ==
    IF rn.energies = <<>>
    THEN [err |-> "", outcome |-> "returned", metrics |-> <<0, 0>>]
    ELSE [err |-> "", outcome |-> "returned",
          metrics |-> <<FMean(rn.energies), MaxSeq(rn.energies)>>]

\* return statistics.fmean(energies), max(energies) if energies else (0.0, 0.0)
\* The mean is taken before the conditional is looked at: no samples, no mean.
RunOnceReturn(rn) ==
    IF rn.energies = <<>>
    THEN [err |-> "StatisticsError", outcome |-> "raised", metrics |-> <<>>]
    ELSE [err |-> "", outcome |-> "returned",
          metrics |-> <<FMean(rn.energies), MaxSeq(rn.energies)>>]

(***************************************************************************)
(* The configurations the model constructs simulations with.               *)
(***************************************************************************)
Modes == {"confined", "open"}
Slots == {1, 2}

\* CavityParams: every combination of the values below.
CavityParamSet ==
    [N : 2..MaxN1, c : {ONE}, dx : {ONE}, dt : {50, ONE, 150}, steps : {MaxSteps},
     gamma_interior : {2}, pml_len : 0..2, pml_max : {10},
     i_src : {-1, 1, 9}, A : {0, 60}, f_cycles : {2},
     sigma_amp : {10}, phase_jitter : {2}, seed : {4, 5}]

\* P3D: every combination of the values below.
P3DParamSet ==
    [N : 2..MaxN3, c : {ONE}, dx : {ONE},
     dt : {35, CourantLimit(3), CourantLimit(3) + 1}, steps : {MaxSteps},
     gamma_interior : {2}, pml_len : 0..2, pml_max : {6},
     A : {0, 70}, f_cycles : {2},
     sigma_amp : {10}, phase_jitter : {2}, seed : {4, 5}]

\* The grid sizes the demo gives Sim2D (from the terminal's size).
Sim2DSizes == (3..MaxW2) \X {3}

\* The few configurations two objects alive at once are built from.
PairCavitySet ==
    {p \in CavityParamSet :
        p.N = 3 /\ p.dt \in {50, 150} /\ p.pml_len = 1 /\ p.i_src = 1 /\ p.A = 60}
PairP3DSet ==
    {p \in P3DParamSet : p.N = 2 /\ p.dt = 35 /\ p.pml_len = 1 /\ p.A = 70 /\ p.seed = 5}
PairSim2DSizes == {<<3, 3>>}

NoCtor == [dim |-> 0, r |-> 0, ok |-> FALSE, called |-> FALSE]
Idle == [kind |-> "idle"]

(***************************************************************************)
(* The simulation objects: constructing and stepping them.                 *)
(***************************************************************************)
Init ==
    /\ rng \in {SeedRng(e) : e \in EntropySeeds}
    /\ sims = [i \in Slots |-> NoSim]
    /\ ctor = [i \in Slots |-> NoCtor]
    /\ run = Idle
    /\ done = <<>>

\* Binds the result of a constructor call to slot i; a constructor that
\* raised leaves the slot without an object.
Bind(i, res) ==
    /\ rng' = res.rng
    /\ sims' = [sims EXCEPT ![i] = res.sim]
    /\ ctor' = [ctor EXCEPT ![i] = [dim |-> res.dim, r |-> res.r, ok |-> res.ok,
                                     called |-> TRUE]]
    /\ UNCHANGED <<run, done>>

NewCavity(i, PS) ==
    \E p \in PS, mode \in Modes : Bind(i, CavityNew(p, mode))

NewWave3D(i, PS) ==
    \E p \in PS, mode \in Modes : Bind(i, Wave3DNew(p, mode))

NewSim2D(i, SZ) ==
    \E wh \in SZ : Bind(i, Sim2DNew(wh[1], wh[2]))

\* A step that also raises the damping profile it has just used.
StepOfRetuning(s, n, g) ==
    LET res == IF s.dim = 1 THEN CavityStep(s, n, g)
               ELSE IF s.dim = 2 THEN Sim2DStep(s, n, g)
               ELSE Wave3DStep(s, n, g)
    IN  [res EXCEPT !.sim.gamma = [x \in DOMAIN @ |-> @[x] + 1]]

\* step(n) of whichever class the object has.
StepOf(s, n, g) ==
    IF s.dim = 1 THEN CavityStep(s, n, g)
    ELSE IF s.dim = 2 THEN Sim2DStep(s, n, g)
    ELSE Wave3DStep(s, n, g)

\* The caller's loop: sim.step(n) with n the number of steps taken so far.
Step(i) ==
    /\ sims[i].dim # 0
    /\ sims[i].n < MaxSteps
    /\ LET res == StepOf(sims[i], sims[i].n, rng)
       IN  /\ sims' = [sims EXCEPT ![i] = res.sim]
           /\ rng' = res.rng
    /\ UNCHANGED <<ctor, run, done>>

\* The demo's key handlers: 'b' flips the boundary mode, 'l' the lock.
ToggleBoundary(i) ==
    /\ sims[i].dim = 2
    /\ sims' = [sims EXCEPT ![i].mode = IF @ = "confined" THEN "open" ELSE "confined"]
    /\ UNCHANGED <<rng, ctor, run, done>>

ToggleLock(i) ==
    /\ sims[i].dim = 2
    /\ sims' = [sims EXCEPT ![i].lock_on = ~@]
    /\ UNCHANGED <<rng, ctor, run, done>>

\* One simulation object, in every configuration.
Next ==
    \/ ~ctor[1].called /\ NewCavity(1, CavityParamSet)
    \/ ~ctor[1].called /\ NewWave3D(1, P3DParamSet)
    \/ ~ctor[1].called /\ NewSim2D(1, Sim2DSizes)
    \/ Step(1)
    \/ ToggleBoundary(1)
    \/ ToggleLock(1)

Spec == Init /\ [][Next]_vars

\* Two simulation objects alive at once, each constructed once.
NextPair ==
    \E i \in Slots :
        \/ ~ctor[i].called /\ NewCavity(i, PairCavitySet)
        \/ ~ctor[i].called /\ NewWave3D(i, PairP3DSet)
        \/ ~ctor[i].called /\ NewSim2D(i, PairSim2DSizes)
        \/ Step(i)

SpecPair == Init /\ [][NextPair]_vars

(***************************************************************************)
(* Whole runs, one after another in one process: simulate_parametric,      *)
(* simulate and the two run_once functions, as a sweep or a demo calls     *)
(* them.  run is the frame of the call in progress, done the outcomes of   *)
(* the calls that ended, in order.                                         *)
(***************************************************************************)
RunSeeds == {1, 2}

\* ParamParams: T/dt gives 0, 1, 40 and 41 steps; one configuration has Q0 = 0.
ParamTimes == {0, 10, 2 * GrowthMinSamples * 10, (2 * GrowthMinSamples + 1) * 10}
ParamBase ==
    [seed |-> 2, dt |-> 10, beta |-> 10, F0 |-> ONE,
     sigma_add |-> 20, f0 |-> 25, omega_drive_ratio |-> ONE, Q0 |-> 5 * ONE,
     C_field |-> 70, C_affect_gamma |-> 60, x0_seed |-> ONE,
     v0_seed |-> 0, T |-> 0, K_lock |-> ONE,
     C_affect_lock |-> ONE, chaos_phase_sigma |-> 30, phi_align |-> PI - PHI_PI, m_param |-> 50,
     G_gain |-> 0, sigma_gamma |-> 5]
ParamParamSet ==
    {[ParamBase EXCEPT !.T = T] : T \in ParamTimes}
    \cup {[ParamBase EXCEPT !.Q0 = 0]}

\* SimParams: T/dt gives 0 to 3 steps.
SimBase ==
    [dt |-> 10, beta |-> 10, F0 |-> ONE, f0 |-> 25,
     omega_drive_ratio |-> ONE, Q0 |-> 5 * ONE, C_field |-> 50,
     C_affect_gamma |-> 50, T |-> 0, K_lock |-> ONE,
     C_affect_lock |-> ONE, chaos_phase_sigma |-> 20, G_gain |-> 0, sigma_drive |-> 30]
SimParamSet == {[SimBase EXCEPT !.T = T] : T \in {0, 10, 20, 30}}

\* The run lengths of run_once, and the configurations it is called with.
RunStepCounts == {0, MaxRunSteps - 2, MaxRunSteps}
RunCavitySet ==
    {[p EXCEPT !.steps = S] :
        p \in {q \in CavityParamSet :
                 q.N = MaxN1 /\ q.pml_len = 1 /\ q.i_src = 1 /\ q.A = 60
                 /\ q.dt \in {50, 150}},
        S \in RunStepCounts}
RunP3DSet ==
    {[p EXCEPT !.steps = S] :
        p \in {q \in P3DParamSet :
                 q.N = MaxN3 /\ q.pml_len = 1 /\ q.A = 70 /\ q.dt = 35 /\ q.seed = 5},
        S \in RunStepCounts}

\* A loop that stops one iteration short of range(steps).
InRangeShort(n, steps) == n < steps - 1

\* for n in range(steps): the loop goes on while n is below steps.
InRange(n, steps) == n < steps

\* A call that raised before its loop, as an entry of done.
Raised(rn) ==
    [steps |-> 0, key |-> rn.key, err |-> rn.err, sampled |-> <<>>,
     traj |-> <<>>, outcome |-> "raised", metrics |-> <<>>, looped |-> FALSE]

\* The call starts: the generator is whatever the call's first statements
\* leave, and a call that raised is over.
Enter(res) ==
    /\ run.kind = "idle"
    /\ Len(done) < MaxRuns
    /\ rng' = res.rng
    /\ IF res.run.kind = "raised"
       THEN run' = Idle /\ done' = Append(done, Raised(res.run))
       ELSE run' = res.run /\ done' = done
    /\ UNCHANGED <<sims, ctor>>

\* The call is over: its outcome joins done.
Leave(entry) ==
    /\ run' = Idle
    /\ done' = Append(done, entry)
    /\ UNCHANGED <<rng, sims, ctor>>

CallParametric ==
    \E locked \in BOOLEAN, p \in ParamParamSet, seed \in RunSeeds :
        Enter(ParamStart(locked, p, seed))

\* One iteration of the loop: the phase step, then acc called four times,
\* each call on the generator the call before it left.
LoopParametric ==
    /\ run.kind = "simulate_parametric"
    /\ InRange(run.n, run.steps)
    /\ \E ph \in {ParamPhase(run, rng)} :
       \E A1 \in {ParamAcc(run, run.t, run.x, run.v,
                           ph.k_mod, ph.gamma_eff, ph.delta, ph.rng)} :
       \E s2 \in {ParamStage2(run, A1)} :
       \E A2 \in {ParamAcc(run, s2.t, s2.x, s2.v,
                           ph.k_mod, ph.gamma_eff, ph.delta, A1.rng)} :
       \E s3 \in {ParamStage3(run, A1, A2)} :
       \E A3 \in {ParamAcc(run, s3.t, s3.x, s3.v,
                           ph.k_mod, ph.gamma_eff, ph.delta, A2.rng)} :
       \E s4 \in {ParamStage4(run, A2, A3)} :
       \E A4 \in {ParamAcc(run, s4.t, s4.x, s4.v,
                           ph.k_mod, ph.gamma_eff, ph.delta, A3.rng)} :
           /\ run' = ParamAdvance(run, rng, ph, A1, A2, A3, A4)
           /\ rng' = A4.rng
    /\ UNCHANGED <<sims, ctor, done>>

ReturnParametric ==
    /\ run.kind = "simulate_parametric"
    /\ ~InRange(run.n, run.steps)
    /\ Leave([steps |-> run.steps, key |-> run.key, err |-> "",
              sampled |-> run.sampled, traj |-> run.traj,
              outcome |-> "returned", metrics |-> ParamReturn(run),
              looped |-> TRUE])

CallSimulate ==
    \E lock \in BOOLEAN, p \in SimParamSet, seed \in RunSeeds :
        Enter(SimStart(lock, p, seed))

\* One iteration of the loop: the two draws, then derivatives called four
\* times with the same noise.
LoopSimulate ==
    /\ run.kind = "simulate"
    /\ InRange(run.n, run.steps)
    /\ \E noise \in {SimNoise(run, rng)} :
       \E D1 \in {SimDerivatives(run, run.x, run.v, run.delta, run.t, noise)} :
       \E s2 \in {SimStage(run, Mul(50, run.p.dt), D1)} :
       \E D2 \in {SimDerivatives(run, s2.x, s2.v, s2.delta, s2.t, noise)} :
       \E s3 \in {SimStage(run, Mul(50, run.p.dt), D2)} :
       \E D3 \in {SimDerivatives(run, s3.x, s3.v, s3.delta, s3.t, noise)} :
       \E s4 \in {SimStage(run, run.p.dt, D3)} :
       \E D4 \in {SimDerivatives(run, s4.x, s4.v, s4.delta, s4.t, noise)} :
           /\ run' = SimAdvance(run, rng, noise, D1, D2, D3, D4)
           /\ rng' = noise.rng
    /\ UNCHANGED <<sims, ctor, done>>

\* statistics.fmean of an empty slice raises; otherwise the dict is returned.
ReturnSimulate ==
    /\ run.kind = "simulate"
    /\ ~InRange(run.n, run.steps)
    /\ LET half == Len(run.energy_hist) \div 2
       IN  IF run.energy_hist = <<>>
           THEN Leave([steps |-> run.steps, key |-> run.key,
                       err |-> "StatisticsError",
                       sampled |-> <<>>, traj |-> run.traj,
                       outcome |-> "raised", metrics |-> <<>>, looped |-> TRUE])
           ELSE Leave([steps |-> run.steps, key |-> run.key, err |-> "",
                       sampled |-> From(run.recorded, half), traj |-> run.traj,
                       outcome |-> "returned", metrics |-> SimReturn(run),
                       looped |-> TRUE])

CallRunOnce ==
    \/ \E mode \in Modes, p \in RunCavitySet : Enter(RunOnceStart(1, mode, p))
    \/ \E mode \in Modes, p \in RunP3DSet : Enter(RunOnceStart(3, mode, p))

LoopRunOnce ==
    /\ run.kind = "run_once"
    /\ InRange(run.n, run.steps)
    /\ \E res \in {IF run.sim.dim = 1 THEN CavityStep(run.sim, run.n, rng)
                   ELSE Wave3DStep(run.sim, run.n, rng)} :
       \E e \in {RunOnceEnergy(res.sim)} :
       \E out \in {RunOnceStep(run, res, e)} :
           run' = out.run /\ rng' = out.rng
    /\ UNCHANGED <<sims, ctor, done>>

ReturnRunOnce ==
    /\ run.kind = "run_once"
    /\ ~InRange(run.n, run.steps)
    /\ LET ret == RunOnceReturn(run)
       IN  Leave([steps |-> run.steps, key |-> run.key, err |-> ret.err,
                  sampled |-> run.sampled, traj |-> run.traj,
                  outcome |-> ret.outcome, metrics |-> ret.metrics,
                  looped |-> TRUE])

NextRuns ==
    \/ CallParametric
    \/ LoopParametric
    \/ ReturnParametric
    \/ CallSimulate
    \/ LoopSimulate
    \/ ReturnSimulate
    \/ CallRunOnce
    \/ LoopRunOnce
    \/ ReturnRunOnce

SpecRuns == Init /\ [][NextRuns]_vars

(***************************************************************************)
(* Properties of the simulation objects.                                   *)
(***************************************************************************)
Alive == {i \in Slots : sims[i].dim # 0}
Stepped == {i \in Alive : sims[i].n > 0}
Cur(i) == sims[i].bufs[sims[i].u]
Prev(i) == sims[i].bufs[sims[i].u_prev]

Extent(s, axis) == s.shape[axis]
OnEdge(s, x, axis) ==
    Coord(s.shape, x, axis) = 0 \/ Coord(s.shape, x, axis) = Extent(s, axis) - 1
\* The outermost ring: a coordinate along one of the grid's axes is 0 or N-1.
Ring(s) == {x \in Nodes(s.shape) : \E axis \in 1..s.dim : OnEdge(s, x, axis)}
\* The node one cell inward of ring node x along an axis where x is on the edge.
Inward(s, x, axis) ==
    IF Coord(s.shape, x, axis) = 0
    THEN x + Stride(s.shape, axis)
    ELSE x - Stride(s.shape, axis)
\* The distance of node x from the nearest edge of the grid.
EdgeDepth(s, x) ==
    LET d(axis) == Min(Coord(s.shape, x, axis),
                       Extent(s, axis) - 1 - Coord(s.shape, x, axis))
    IN  IF s.dim = 1 THEN d(1) ELSE IF s.dim = 2 THEN Min(d(1), d(2))
        ELSE Min3(d(1), d(2), d(3))

\* C1: a constructor call fails exactly when its Courant number c*dt/dx
\* exceeds 1/sqrt(dimension count) (a number equal to the limit is accepted),
\* and a call that failed leaves no object that could be stepped.
C1_CourantRejected ==
    \A i \in Slots :
        ctor[i].called =>
            /\ ctor[i].ok = ~(ctor[i].r > CourantLimit(ctor[i].dim))
            /\ ctor[i].ok = (sims[i].dim # 0)
            /\ ~ctor[i].ok => sims[i] = NoSim

C1_Witness ==
    /\ ctor[1].called /\ ctor[1].dim = 3 /\ ~ctor[1].ok
    /\ ctor[1].r = CourantLimit(3) + 1
    /\ sims[1] = NoSim

\* C3: every deviate an object has consumed is the next value of the stream
\* of its own seed: the k-th value it draws is value k-1 after seeding.
C3_OwnStream ==
    \A i \in Alive :
        \A k \in 1..Len(sims[i].consumed) :
            sims[i].consumed[k] = [seed |-> sims[i].own_seed, pos |-> k - 1]

\* C4: after every step the three buffer references are pairwise distinct,
\* u holds the values written in that step and u_prev holds, node for node,
\* what u held before the step.
C4_BuffersRotated ==
    \A i \in Alive :
        /\ Cardinality({sims[i].u_prev, sims[i].u, sims[i].u_next}) = 3
        /\ sims[i].n > 0 => (Cur(i) = sims[i].computed /\ Prev(i) = sims[i].pre_u)

C4_Witness ==
    /\ 1 \in Alive /\ sims[1].n >= 2
    /\ Cur(1) # Prev(1)
    /\ Prev(1) # Zeros(sims[1].shape)

\* C5: after every step taken in confined mode every node of the outermost
\* ring of the current field is zero.
C5_ConfinedRingZero ==
    \A i \in Stepped :
        sims[i].stepMode = "confined" =>
            \A x \in Ring(sims[i]) : Cur(i)[x] = 0

C5_Witness ==
    /\ 1 \in Stepped /\ sims[1].dim = 3 /\ sims[1].stepMode = "confined"
    /\ sims[1].p.N = 3
    /\ Cur(1)[sims[1].src] # 0

\* C6: after every step taken in open mode every node of the outermost ring
\* holds the pre-step current value of its neighbour one cell inward.
C6_OpenRingCopiesInward ==
    \A i \in Stepped :
        sims[i].stepMode = "open" =>
            \A x \in Ring(sims[i]) :
                \E axis \in 1..sims[i].dim :
                    /\ OnEdge(sims[i], x, axis)
                    /\ Cur(i)[x] = sims[i].pre_u[Inward(sims[i], x, axis)]

\* C7: in open mode the damping profile of WaveCavity and Wave3D is
\* baseline + pml_max*(L-d)/L at depth d < L and the baseline at depth >= L
\* (stated for grids whose two layers do not overlap, 2L <= N).
C7_RampLargestAtEdge ==
    \A i \in Alive :
        (/\ sims[i].dim \in {1, 3} /\ sims[i].mode = "open"
         /\ 2 * sims[i].p.pml_len <= sims[i].p.N) =>
            \A x \in Nodes(sims[i].shape) :
                LET d == EdgeDepth(sims[i], x)
                    L == sims[i].p.pml_len
                IN  sims[i].gamma[x] =
                        sims[i].p.gamma_interior
                        + (IF d < L THEN Quot(sims[i].p.pml_max * (L - d), L) ELSE 0)

(***************************************************************************)
(* Properties of whole runs.                                               *)
(***************************************************************************)
Ended == 1..Len(done)

\* The step indices a to b in ascending order (none when b < a).
Ascending(a, b) == [k \in 1..(b - a + 1) |-> a + k - 1]

\* C2: two ended runs of the same function with the same parameters and seed
\* have the same outcome, trajectory, samples and metrics, whatever ran
\* between and before them.
C2_RunsRepeatable ==
    \A a \in Ended, b \in Ended :
        (done[a].key.fn = done[b].key.fn /\ done[a].key = done[b].key) =>
            done[a] = done[b]

C2_Witness ==
    /\ Len(done) = 2
    /\ done[1].key.fn = "simulate" /\ done[1].key = done[2].key
    /\ done[1].outcome = "returned" /\ Len(done[1].traj) >= 2
    /\ rng.pos > 0

\* C8: after every step of an oscillator run each noise term was drawn once
\* (three draws a step in simulate_parametric, two in simulate) and the four
\* RK4 stages read the additive noise from one and the same draw.
C8_NoiseFrozen ==
    (run.kind \in {"simulate_parametric", "simulate"} /\ run.n > 0) =>
        /\ \A k \in 2..4 : run.stageNoise[k] = run.stageNoise[1]
        /\ run.stepDraws = IF run.kind = "simulate" THEN 2 ELSE 3

\* C9: a run of S >= 1 steps reduces its metrics over the samples of the
\* steps n > S // 2, in step order, S - S // 2 - 1 of them, in
\* simulate_parametric, run_once and simulate alike.
C9_SamplesAfterBurnIn ==
    \A k \in Ended :
        (done[k].looped /\ done[k].steps >= 1) =>
            /\ done[k].sampled =
                   Ascending(done[k].steps \div 2 + 1, done[k].steps - 1)
            /\ Len(done[k].sampled) = done[k].steps - done[k].steps \div 2 - 1

\* C9 (amended): simulate_parametric and run_once append one sample for each
\* step n > S // 2 and no other, in step order, max(0, S - S // 2 - 1) in
\* all; simulate appends an entry at every step and reduces its metrics over
\* the entries of the steps n >= S // 2, S - S // 2 of them.
C9_SamplesByFunction ==
    /\ run.kind \in {"simulate_parametric", "run_once"} =>
           run.sampled = Ascending(run.steps \div 2 + 1, run.n - 1)
    /\ run.kind = "simulate" => run.recorded = Ascending(0, run.n - 1)
    /\ \A k \in Ended :
           done[k].looped =>
               LET S == done[k].steps
                   half == S \div 2
               IN  IF done[k].key.fn = "simulate"
                   THEN /\ done[k].sampled = Ascending(half, S - 1)
                        /\ Len(done[k].sampled) = S - half
                   ELSE /\ done[k].sampled = Ascending(half + 1, S - 1)
                        /\ Len(done[k].sampled) = Max(0, S - half - 1)

C9_Witness ==
    /\ Len(done) = 2
    /\ done[1].key.fn = "simulate" /\ done[1].steps = 3
    /\ done[1].sampled = <<1, 2>>
    /\ done[2].key.fn = "run_once" /\ done[2].steps = MaxRunSteps
    /\ Len(done[2].sampled) = MaxRunSteps - MaxRunSteps \div 2 - 1
    /\ Len(done[2].sampled) >= 2

\* C10: a simulate_parametric run of a configuration that reaches the loop
\* (Q0 # 0, dt > 0) and collects fewer than 20 samples returns, and the
\* growth_ratio it returns is exactly 1.0.
C10_FewSamplesGrowthOne ==
    \A k \in Ended :
        (/\ done[k].key.fn = "simulate_parametric"
         /\ done[k].key.p.Q0 # 0 /\ done[k].key.p.dt > 0
         /\ Len(done[k].sampled) < GrowthMinSamples) =>
            /\ done[k].outcome = "returned"
            /\ done[k].metrics.growth_ratio = [inf |-> FALSE, val |-> ONE]

C10_Witness ==
    /\ Len(done) = 2
    /\ done[1].key.fn = "simulate_parametric" /\ done[1].steps = 1
    /\ done[1].outcome = "returned" /\ done[1].sampled = <<>>
    /\ done[2].key.fn = "simulate_parametric"
    /\ Len(done[2].sampled) = GrowthMinSamples - 1
    /\ done[2].outcome = "returned"
    /\ done[2].metrics.E_peak > done[2].metrics.E_avg

(***************************************************************************)
(* The reduction at the end of simulate_parametric, on sample lists of     *)
(* every length from just below the threshold to MaxSamples.               *)
(***************************************************************************)
\* The energies a run may have collected: level a, changing by b a sample.
SampleRamp(m, a, b) == [k \in 1..m |-> a + b * k]

SampleLevels == {0, ONE, 30 * ONE}
SampleSlopes == {-50, 0, 10, 50}

\* The frame of a run of 2m + 1 steps at the exit of its loop, with m samples.
LoopExit(m, E) ==
    [ParamStart(FALSE, [ParamBase EXCEPT !.T = (2 * m + 1) * ParamBase.dt], 1).run
        EXCEPT !.n = 2 * m + 1,
               !.E_vals = E,
               !.x2_vals = [k \in 1..m |-> ONE],
               !.sampled = Ascending(m + 1, 2 * m)]

InitGrowth ==
    /\ rng \in {SeedRng(e) : e \in EntropySeeds}
    /\ sims = [i \in Slots |-> NoSim]
    /\ ctor = [i \in Slots |-> NoCtor]
    /\ done = <<>>
    /\ \E m \in (GrowthMinSamples - 1)..MaxSamples, a \in SampleLevels,
          b \in SampleSlopes :
           /\ \A k \in 1..m : a + b * k >= 0
           /\ run = LoopExit(m, SampleRamp(m, a, b))

SpecGrowth == InitGrowth /\ [][ReturnParametric]_vars

\* The last q entries of a list.
LastOf(q, count) == SubSeq(q, Len(q) - count + 1, Len(q))

Malformed(p) == p.Q0 <= 0 \/ p.dt <= 0

MalformedParamSet ==
    {p \in {[ParamBase EXCEPT !.T = 10, !.Q0 = q, !.dt = d] :
               q \in {-5 * ONE, 0, 5 * ONE}, d \in {-10, 0, 10}} : Malformed(p)}

MalformedSimSet ==
    {p \in {[SimBase EXCEPT !.T = 10, !.Q0 = q, !.dt = d] :
               q \in {-5 * ONE, 0, 5 * ONE}, d \in {-10, 0, 10}} : Malformed(p)}

CallParametricMalformed ==
    \E locked \in BOOLEAN, p \in MalformedParamSet, seed \in RunSeeds :
        Enter(ParamStart(locked, p, seed))

CallSimulateMalformed ==
    \E lock \in BOOLEAN, p \in MalformedSimSet, seed \in RunSeeds :
        Enter(SimStart(lock, p, seed))

NextMalformed ==
    \/ CallParametricMalformed
    \/ LoopParametric
    \/ ReturnParametric
    \/ CallSimulateMalformed
    \/ LoopSimulate
    \/ ReturnSimulate

SpecMalformed == Init /\ [][NextMalformed]_vars

\* C12: an oscillator run whose Q0 or dt is zero or negative executes no
\* integration step and ends with an error, never with metrics.
C12_MalformedRejected ==
    /\ (run.kind \in {"simulate", "simulate_parametric"} /\ Malformed(run.p)) =>
           run.n = 0
    /\ \A k \in Ended :
           (done[k].key.fn \in {"simulate", "simulate_parametric"}
            /\ Malformed(done[k].key.p)) =>
               /\ done[k].outcome = "raised"
               /\ done[k].traj = <<>>

(***************************************************************************)
(* Termination of the runs.  The process is one thread of control: a call  *)
(* in progress keeps executing its loop and then its return.               *)
(***************************************************************************)
Progress ==
    \/ LoopParametric
    \/ ReturnParametric
    \/ LoopSimulate
    \/ ReturnSimulate
    \/ LoopRunOnce
    \/ ReturnRunOnce

SpecRunsLive == SpecRuns /\ WF_vars(Progress)

\* C13: a run that reaches its loop starts at step index 0, every iteration
\* executes the index that follows the one before it, the loop is left only
\* at index steps, after exactly steps iterations, and every run in progress
\* comes to its end.
C13_RunsComplete ==
    /\ [][/\ (run.kind = "idle" /\ run'.kind # "idle") => run'.n = 0
          /\ (run.kind # "idle" /\ run'.kind # "idle") =>
                 /\ run.n < run.steps
                 /\ run'.n = run.n + 1
                 /\ run'.steps = run.steps
                 /\ Len(run'.traj) = Len(run.traj) + 1
                 /\ run.kind = "run_once" => run'.sim.n = run.n + 1
          /\ (run.kind # "idle" /\ run'.kind = "idle") =>
                 /\ run.n = run.steps
                 /\ Len(done') = Len(done) + 1
                 /\ done'[Len(done')].steps = run.steps
                 /\ Len(done'[Len(done')].traj) = run.steps]_vars
    /\ (run.kind # "idle") ~> (run.kind = "idle")

C13_Witness ==
    /\ Len(done) = 2
    /\ done[1].key.fn = "simulate_parametric"
    /\ done[1].steps = 2 * GrowthMinSamples + 1
    /\ Len(done[1].traj) = 2 * GrowthMinSamples + 1
    /\ done[2].key.fn = "run_once" /\ done[2].key.dim = 3
    /\ done[2].steps = MaxRunSteps /\ Len(done[2].traj) = MaxRunSteps

(***************************************************************************)
(* Runs without phase jitter.  A process is either a script calling an     *)
(* oscillator run or the terminal demo driving a Sim2D, whose phase_jitter *)
(* attribute its caller may set.                                           *)
(***************************************************************************)
LockGains == {ONE, 2 * ONE, 5 * ONE}
QuietSeeds == 0..5

QuietParamSet ==
    {[ParamBase EXCEPT !.chaos_phase_sigma = 0, !.T = 3 * ParamBase.dt]}

QuietSimSet ==
    {[SimBase EXCEPT !.chaos_phase_sigma = 0, !.dt = 60,
                     !.T = 60 * MaxQuietSteps, !.K_lock = k] : k \in LockGains}

CallParametricQuiet ==
    \E locked \in BOOLEAN, p \in QuietParamSet, seed \in RunSeeds :
        Enter(ParamStart(locked, p, seed))

CallSimulateQuiet ==
    \E lock \in BOOLEAN, p \in QuietSimSet, seed \in QuietSeeds :
        Enter(SimStart(lock, p, seed))

\* sim.phase_jitter = 0.0
QuietJitter(i) ==
    /\ sims[i].dim = 2
    /\ sims[i].p.phase_jitter # 0
    /\ sims' = [sims EXCEPT ![i].p.phase_jitter = 0]
    /\ UNCHANGED <<rng, ctor, run, done>>

NextQuiet ==
    \/ /\ ~ctor[1].called /\ done = <<>>
       /\ \/ CallParametricQuiet
          \/ LoopParametric
          \/ ReturnParametric
          \/ CallSimulateQuiet
          \/ LoopSimulate
          \/ ReturnSimulate
    \/ /\ run = Idle /\ done = <<>>
       /\ \/ ~ctor[1].called /\ NewSim2D(1, PairSim2DSizes)
          \/ QuietJitter(1)
          \/ ToggleLock(1)
          \/ Step(1)

SpecQuiet == Init /\ [][NextQuiet]_vars

\* The run in progress, or the Sim2D in slot 1, is unlocked and has a phase
\* jitter amplitude of zero.
QuietUnlockedRun ==
    /\ run.kind \in {"simulate", "simulate_parametric"}
    /\ ~run.flag /\ run.p.chaos_phase_sigma = 0
QuietUnlockedDemo ==
    /\ sims[1].dim = 2 /\ ~sims[1].lock_on /\ sims[1].p.phase_jitter = 0

\* C14: a step of an unlocked run whose phase jitter amplitude is zero
\* leaves the phase error as it was: delta in simulate_parametric and
\* simulate, the drive phase in Sim2D.
C14_UnlockedPhaseStays ==
    [][/\ (QuietUnlockedRun /\ run'.kind = run.kind) => run'.delta = run.delta
       /\ (QuietUnlockedDemo /\ sims'[1].dim = 2 /\ sims'[1].n = sims[1].n + 1) =>
              sims'[1].phase = sims[1].phase]_vars

C14_Witness ==
    /\ QuietUnlockedRun /\ run.kind = "simulate"
    /\ run.n >= 3 /\ run.delta < 0
    /\ run.traj[1] # run.traj[3]
    /\ rng.pos >= 7

\* The run in progress is a locked simulate run without phase jitter.
QuietLockedRun ==
    /\ run.kind = "simulate" /\ run.flag /\ run.K > 0
    /\ run.p.chaos_phase_sigma = 0

\* The distance from 0 the phase error has to come within, and the number
\* of steps, a multiple of 1/(K*dt), it is given for that.
DeltaTol == 5
SettleGain == 6
SettleSteps(rn) == (SettleGain * ONE) \div Mul(rn.K, rn.p.dt) + 1

\* The phase error of a run step: it does not grow, it shrinks while it is
\* farther than DeltaTol from 0.
Shrinks(before, after) ==
    /\ Abs(after) <= Abs(before)
    /\ Abs(before) > DeltaTol => Abs(after) < Abs(before)

EntryNames == {"run_demo", "wave_cavity_main", "wave3d_main", "make_svgs_main"}

\* What the file system does during one execution of an entry point:
\* whether the results directory can be created, the CSV opened for
\* writing, a row written, an SVG written, and which CSV files exist.
FsOutcomes ==
    [mkdir : BOOLEAN, open : BOOLEAN, write : BOOLEAN, svg : BOOLEAN,
     param_csv : BOOLEAN, wave_csv : BOOLEAN]

\* The scenarios of run_demo, and the runs each makes (locked, unlocked).
DemoScenarios == 4
RunsPerScenario == 2

\* The simulation runs an entry point is written to make.
PlannedRuns(name) ==
    CASE name = "run_demo" -> DemoScenarios * RunsPerScenario
      [] name = "wave_cavity_main" -> 2
      [] name = "wave3d_main" -> 2
      [] OTHER -> 0

FirstPc(name) ==
    CASE name = "run_demo" -> "makedirs"
      [] name = "make_svgs_main" -> "makedirs"
      [] OTHER -> "confined"

EntryStart(name, fs) ==
    [kind |-> name, err |-> "none", out |-> <<>>, fs |-> fs, pc |-> FirstPc(name),
     runs |-> 0, rows |-> 0, files |-> {}]

IsEntry(r) == r.kind \in EntryNames

Raise(r) == [r EXCEPT !.pc = "raised", !.err = "OSError"]

CallEntry ==
    /\ run = Idle
    /\ done = <<>>
    /\ \E name \in EntryNames, fs \in FsOutcomes : run' = EntryStart(name, fs)
    /\ UNCHANGED <<rng, sims, ctor, done>>

\* run_demo: the results file is created and opened first, and the
\* scenario loop runs inside the `with` block, writing one row per scenario.
StepRunDemo ==
    /\ run.kind = "run_demo"
    /\ run.pc \in {"makedirs", "open", "scenario"}
    /\ run' =
         CASE run.pc = "makedirs" ->
                IF run.fs.mkdir THEN [run EXCEPT !.pc = "open"] ELSE Raise(run)
           [] run.pc = "open" ->
                IF ~run.fs.open THEN Raise(run)
                ELSE IF ~run.fs.write THEN Raise(run)
                ELSE [run EXCEPT !.pc = "scenario"]
           [] run.pc = "scenario" ->
                LET ran == [run EXCEPT !.runs = @ + RunsPerScenario,
                                       !.out = Append(@, "scenario")]
                IN  IF ~run.fs.write THEN Raise(ran)
                    ELSE [ran EXCEPT !.rows = @ + 1,
                                     !.pc = IF run.rows + 1 = DemoScenarios
                                            THEN "return" ELSE "scenario",
                                     !.files = IF run.rows + 1 = DemoScenarios
                                               THEN @ \cup {"parametric_results.csv"}
                                               ELSE @]
    /\ UNCHANGED <<rng, sims, ctor, done>>

\* wave_cavity main: both runs, the report, then the CSV inside try/except.
StepWaveCavityMain ==
    /\ run.kind = "wave_cavity_main"
    /\ run.pc \in {"confined", "open_run", "csv"}
    /\ run' =
         CASE run.pc = "confined" ->
                [run EXCEPT !.runs = @ + 1, !.pc = "open_run"]
           [] run.pc = "open_run" ->
                [run EXCEPT !.runs = @ + 1, !.out = Append(@, "report"),
                            !.pc = "csv"]
           [] run.pc = "csv" ->
                IF run.fs.mkdir /\ run.fs.open /\ run.fs.write
                THEN [run EXCEPT !.files = @ \cup {"wave_cavity_results.csv"},
                                 !.pc = "return"]
                ELSE [run EXCEPT !.out = Append(@, "[warn] Failed to write CSV"),
                                 !.pc = "return"]
    /\ UNCHANGED <<rng, sims, ctor, done>>

\* wave3d main: both runs, the report, then the CSV and the SVG, unguarded.
StepWave3dMain ==
    /\ run.kind = "wave3d_main"
    /\ run.pc \in {"confined", "open_run", "csv", "svg"}
    /\ run' =
         CASE run.pc = "confined" ->
                [run EXCEPT !.runs = @ + 1, !.pc = "open_run"]
           [] run.pc = "open_run" ->
                [run EXCEPT !.runs = @ + 1, !.out = Append(@, "report"),
                            !.pc = "csv"]
           [] run.pc = "csv" ->
                IF run.fs.mkdir /\ run.fs.open /\ run.fs.write
                THEN [run EXCEPT !.files = @ \cup {"wave3d_results.csv"},
                                 !.pc = "svg"]
                ELSE Raise(run)
           [] run.pc = "svg" ->
                IF run.fs.svg
                THEN [run EXCEPT !.files = @ \cup {"wave3d_results.svg"},
                                 !.out = Append(@, "[ok] Wrote"),
                                 !.pc = "return"]
                ELSE Raise(run)
    /\ UNCHANGED <<rng, sims, ctor, done>>

\* One plot of make_svgs.main: produced when its CSV exists, otherwise a
\* warning; writing the SVG is unguarded.
PlotStage(r, present, svg, next) ==
    IF ~present
    THEN [r EXCEPT !.out = Append(@, "[warn] Missing"), !.pc = next]
    ELSE IF ~r.fs.svg THEN Raise(r)
    ELSE [r EXCEPT !.files = @ \cup {svg}, !.out = Append(@, "[ok] Wrote"),
                   !.pc = next]

StepMakeSvgs ==
    /\ run.kind = "make_svgs_main"
    /\ run.pc \in {"makedirs", "param", "wave"}
    /\ run' =
         CASE run.pc = "makedirs" ->
                IF run.fs.mkdir THEN [run EXCEPT !.pc = "param"] ELSE Raise(run)
           [] run.pc = "param" ->
                PlotStage(run, run.fs.param_csv, "parametric_results.svg", "wave")
           [] run.pc = "wave" ->
                PlotStage(run, run.fs.wave_csv, "wave_cavity_results.svg", "return")
    /\ UNCHANGED <<rng, sims, ctor, done>>

\* The entry point returns, or its exception ends the process.
ReturnEntry ==
    /\ IsEntry(run)
    /\ run.pc \in {"return", "raised"}
    /\ done' = Append(done, run)
    /\ run' = Idle
    /\ UNCHANGED <<rng, sims, ctor>>

NextEntry ==
    \/ CallEntry
    \/ StepRunDemo
    \/ StepWaveCavityMain
    \/ StepWave3dMain
    \/ StepMakeSvgs
    \/ ReturnEntry

SpecEntry == Init /\ [][NextEntry]_vars

\* An entry point that has ended, with the state it ended in.
EndedEntries == {done[k] : k \in 1..Len(done)}

WarnLines == {"[warn] Missing", "[warn] Failed to write CSV"}

Warned(r) == \E k \in 1..Len(r.out) : r.out[k] \in WarnLines

\* C16: an entry point that has ended made every simulation run it is
\* written to make, whatever the file system did; and make_svgs.main, when
\* exactly one of the two CSV files is missing and nothing else fails, has
\* warned about the missing one and produced the plot of the other.
C16_IoFailureIsolated ==
    \A r \in EndedEntries :
        /\ r.runs = PlannedRuns(r.kind)
        /\ (r.kind = "make_svgs_main" /\ r.fs.mkdir /\ r.fs.svg) =>
              /\ (~r.fs.param_csv /\ r.fs.wave_csv) =>
                    Warned(r) /\ "wave_cavity_results.svg" \in r.files
              /\ (r.fs.param_csv /\ ~r.fs.wave_csv) =>
                    Warned(r) /\ "parametric_results.svg" \in r.files

\* The part of C16 about the entry points other than run_demo.
C16_OthersIsolated ==
    \A r \in EndedEntries :
        /\ r.kind # "run_demo" => r.runs = PlannedRuns(r.kind)
        /\ (r.kind = "make_svgs_main" /\ r.fs.mkdir /\ r.fs.svg) =>
              /\ (~r.fs.param_csv /\ r.fs.wave_csv) =>
                    Warned(r) /\ "wave_cavity_results.svg" \in r.files
              /\ (r.fs.param_csv /\ ~r.fs.wave_csv) =>
                    Warned(r) /\ "parametric_results.svg" \in r.files

(***************************************************************************)
(* Sim2D.snapshot().  The value returned is a reference to one of the      *)
(* object's three grids; the caller's handles are kept in `done`, each     *)
(* with the grid it refers to and a copy of what that grid held when the   *)
(* call returned.                                                          *)
(***************************************************************************)
MaxHandles == 2

\* def snapshot(self): return self.u
Sim2DSnapshot(s) == s.u

\* grid = sim.snapshot()
Snapshot(i) ==
    /\ sims[i].dim = 2
    /\ Len(done) < MaxHandles
    /\ done' = Append(done, [kind |-> "snapshot", at |-> sims[i].n,
                             slot |-> i,
                             ref |-> Sim2DSnapshot(sims[i]),
                             seen |-> sims[i].bufs[Sim2DSnapshot(sims[i])],
                             cur |-> sims[i].bufs[sims[i].u], writes |-> 0])
    /\ UNCHANGED <<rng, sims, ctor, run>>

\* The values a caller stores through a handle.
WrittenValues == {ONE}

\* grid[y][x] = val, by the holder of a handle: the grid is a list of lists,
\* and the assignment lands in the object it refers to.
WriteSnapshot(k) ==
    /\ k \in 1..Len(done)
    /\ done[k].writes = 0
    /\ \E v \in Nodes(sims[done[k].slot].shape), val \in WrittenValues :
          sims' = [sims EXCEPT ![done[k].slot].bufs[done[k].ref][v] = val]
    /\ done' = [done EXCEPT ![k].writes = @ + 1]
    /\ UNCHANGED <<rng, ctor, run>>

\* One Sim2D object, stepped by the demo loop while snapshots are held.
NextSnapshot ==
    \/ ~ctor[1].called /\ NewSim2D(1, PairSim2DSizes)
    \/ Step(1)
    \/ ToggleBoundary(1)
    \/ Snapshot(1)
    \/ \E k \in 1..MaxHandles : WriteSnapshot(k)

SpecSnapshot == Init /\ [][NextSnapshot]_vars

\* What a handle shows now.
View(h) == sims[h.slot].bufs[h.ref]

Handles == {done[k] : k \in 1..Len(done)}

\* C17: what snapshot() returns equals the current grid at the time of the
\* call; a handle nobody wrote through keeps showing what it showed then,
\* however many steps follow; and a write through a handle leaves every
\* grid of the simulation as it was.
C17_SnapshotReadOnly ==
    /\ [](\A h \in Handles : h.seen = h.cur)
    /\ [](\A h \in Handles : h.writes = 0 => View(h) = h.seen)
    /\ [][(\E k \in 1..Len(done) : /\ Len(done') = Len(done)
                                   /\ done'[k].writes > done[k].writes)
            => sims' = sims]_vars

\* The part of C17 that holds: the returned grid is the current grid at the
\* time of the call, and stays what was returned until the object's third
\* step after the call.
C17_SnapshotCurrentAtCall ==
    /\ \A h \in Handles : h.seen = h.cur
    /\ \A h \in Handles :
          (h.writes = 0 /\ (\A g \in Handles : g.writes = 0)
           /\ sims[h.slot].n < h.at + 3) => View(h) = h.seen

(***************************************************************************)
(* Confinement against dissipation: run_once on the 1-D field in both      *)
(* modes with the same parameters, hence the same seed.                    *)
(***************************************************************************)
\* The completed 1-D run_once calls that returned metrics, by mode.
CavityRuns(mode) ==
    {k \in 1..Len(done) : /\ done[k].key.fn = "run_once"
                          /\ done[k].key.dim = 1
                          /\ done[k].key.mode = mode
                          /\ done[k].outcome = "returned"}

\* C18: when run_once has returned for the same parameters, with a nonzero
\* pml_max, in both modes, the mean energy after burn-in of the confined
\* run is at least that of the open run.
C18_ConfinedRetainsMore ==
    \A j \in CavityRuns("confined"), k \in CavityRuns("open") :
        (done[j].key.p = done[k].key.p /\ done[j].key.p.pml_max # 0)
            => done[j].metrics[1] >= done[k].metrics[1]

(***************************************************************************)
(* The order of one field step: interior update, source injection,         *)
(* boundary handling, rotation.  The properties below restate the update   *)
(* rule from the values the object held before the step and compare it     *)
(* with what the step left in the buffer that was `next`.                  *)
(***************************************************************************)
\* Object i takes a step in this transition.
StepsNow(i) ==
    /\ sims[i].dim # 0
    /\ sims'[i].dim = sims[i].dim
    /\ sims'[i].n = sims[i].n + 1

\* The nodes inside the outermost ring.
Inner(s) == Nodes(s.shape) \ Ring(s)

\* The second difference of U at node v along one axis.
LapAxis(s, U, v, axis) ==
    U[v + Stride(s.shape, axis)] + U[v - Stride(s.shape, axis)] - 2 * U[v]

\* The nearest-neighbour Laplacian: 2, 4 or 6 neighbours.
Laplacian(s, U, v) ==
    LapAxis(s, U, v, 1)
    + (IF s.dim >= 2 THEN LapAxis(s, U, v, 2) ELSE 0)
    + (IF s.dim >= 3 THEN LapAxis(s, U, v, 3) ELSE 0)

\* (2 - 2*g*dt)*u - (1 - g*dt)*u_prev + r^2*Laplacian(u) at node v.
UpdateRule(s, U, UP, v) ==
    Mul(2 * ONE - Mul(2 * s.gamma[v], s.p.dt), U[v])
    - Mul(ONE - Mul(s.gamma[v], s.p.dt), UP[v])
    + Mul(Mul(s.r, s.r), Laplacian(s, U, v))

\* dt*dt*s, the force added at the source node in a step that starts with
\* generator g and ends with drive phase ph.
Injection(s, g, ph) ==
    LET w == IF s.dim = 2 THEN Mul(s.p.detune, s.omega) ELSE s.omega
        amp_noise == ONE + Mul(s.p.sigma_amp, Deviate(Advance(g)))
    IN  Mul(Mul(s.p.dt, s.p.dt),
            Mul(Mul(s.p.A, amp_noise), Sin(w * s.n + ph)))

\* C19: in every step of every field object, each node inside the
\* outermost ring receives (2 - 2*g*dt)*u - (1 - g*dt)*u_prev
\* + r^2*Laplacian(u), computed from the values `current` and `previous`
\* held before the step (plus the injected force at the source node), with
\* the 2-, 4- or 6-neighbour stencil.
C19_InteriorUpdate ==
    [][\A i \in Slots :
          StepsNow(i) =>
             \A v \in Inner(sims[i]) :
                sims'[i].bufs[sims[i].u_next][v]
                  = UpdateRule(sims[i], sims[i].bufs[sims[i].u],
                               sims[i].bufs[sims[i].u_prev], v)
                    + (IF v = sims[i].src
                       THEN Injection(sims[i], rng, sims'[i].phase) ELSE 0)]_vars

\* An object has taken at least two steps and the field has spread from
\* the source to another node inside the ring.
C19_Witness ==
    \E i \in Stepped :
        /\ sims[i].n >= 2
        /\ \E v \in Inner(sims[i]) : v # sims[i].src /\ Cur(i)[v] # 0

\* What boundary handling may leave at ring node v of the buffer that was
\* `next`: 0 when confined, the pre-step `current` value one cell inward
\* along an axis on which v is on the edge when open, or, where no boundary
\* loop reaches v, the value the buffer already held.
RingValues(s, v) ==
    {s.bufs[s.u_next][v]}
    \cup (IF s.mode = "confined" THEN {0}
          ELSE {s.bufs[s.u][Inward(s, v, axis)] :
                   axis \in {a \in 1..s.dim : OnEdge(s, v, a)}})

\* C20: in every step, what the step leaves in the buffer that was `next`
\* is, inside the outermost ring, the interior update plus the injected
\* force (boundary handling changed none of it) and, on the ring, the
\* boundary value even where the source sits on the ring (boundary handling
\* came after the injection); the buffers that were `current` and
\* `previous` hold what they held, and the buffer written becomes `current`
\* (boundary handling came before the rotation).
C20_EdgesAfterInterior ==
    [][\A i \in Slots :
          StepsNow(i) =>
             LET s == sims[i]
                 new == sims'[i].bufs[s.u_next]
             IN  /\ \A v \in Ring(s) : new[v] \in RingValues(s, v)
                 /\ \A v \in Inner(s) :
                       new[v] - (IF v = s.src
                                 THEN Injection(s, rng, sims'[i].phase) ELSE 0)
                         = UpdateRule(s, s.bufs[s.u], s.bufs[s.u_prev], v)
                 /\ sims'[i].bufs[s.u] = s.bufs[s.u]
                 /\ sims'[i].bufs[s.u_prev] = s.bufs[s.u_prev]
                 /\ sims'[i].u = s.u_next
                 /\ sims'[i].u_prev = s.u]_vars

\* An open object has stepped and holds nonzero values both on the ring
\* and inside it.
C20_Witness ==
    \E i \in Stepped :
        /\ sims[i].stepMode = "open"
        /\ \E v \in Ring(sims[i]) : Cur(i)[v] # 0
        /\ \E v \in Inner(sims[i]) : Cur(i)[v] # 0

\* A 1-D object whose source node is on the ring has stepped with a
\* nonzero drive: the ring node holds the boundary value, not the force.
C20_SourceOnRing ==
    \E i \in Stepped :
        /\ sims[i].src \in Ring(sims[i])
        /\ sims[i].p.A # 0

(***************************************************************************)
(* What a step leaves alone.                                               *)
(***************************************************************************)
\* C21: a step of a WaveCavity or a Wave3D leaves the damping profile, the
\* mode, the Courant number and the parameter record as they were, and with
\* them the grid shape, the drive frequency and the source node: of what
\* the constructor set, only the buffers and the drive phase change.
C21_StepFrame ==
    [][\A i \in Slots :
          (StepsNow(i) /\ sims[i].dim \in {1, 3}) =>
             /\ sims'[i].gamma = sims[i].gamma
             /\ sims'[i].mode = sims[i].mode
             /\ sims'[i].r = sims[i].r
             /\ sims'[i].p = sims[i].p
             /\ sims'[i].shape = sims[i].shape
             /\ sims'[i].omega = sims[i].omega
             /\ sims'[i].src = sims[i].src
             /\ sims'[i].own_seed = sims[i].own_seed
             /\ sims'[i].lock_on = sims[i].lock_on]_vars

\* An open 3-D object with a ramped damping profile has stepped twice and
\* its field and phase have changed.
C21_Witness ==
    \E i \in Stepped :
        /\ sims[i].dim = 3
        /\ sims[i].mode = "open"
        /\ sims[i].n >= 2
        /\ \E v \in Nodes(sims[i].shape) : sims[i].gamma[v] # sims[i].p.gamma_interior
        /\ sims[i].phase # PHI_PI
        /\ \E v \in Nodes(sims[i].shape) : Cur(i)[v] # 0

(***************************************************************************)
(* The absorption sweep: run_once called for configurations that differ    *)
(* in the boundary-layer parameters, as run_sweep does.                    *)
(***************************************************************************)
SweepLens == 0..2
SweepMaxes == {0, 10, 50}

SweepCavitySet ==
    {[p EXCEPT !.pml_len = L, !.pml_max = M] :
        p \in {q \in RunCavitySet : q.dt = 50 /\ q.seed = 4 /\ q.steps = MaxRunSteps},
        L \in SweepLens, M \in SweepMaxes}

SweepP3DSet ==
    {[p EXCEPT !.pml_len = L, !.pml_max = M] :
        p \in {q \in RunP3DSet : q.steps = MaxRunSteps},
        L \in SweepLens, M \in SweepMaxes}

CallRunOnceSweep ==
    \/ \E mode \in Modes, p \in SweepCavitySet : Enter(RunOnceStart(1, mode, p))
    \/ \E mode \in Modes, p \in SweepP3DSet : Enter(RunOnceStart(3, mode, p))

NextSweep ==
    \/ CallRunOnceSweep
    \/ LoopRunOnce
    \/ ReturnRunOnce

SpecSweep == Init /\ [][NextSweep]_vars

\* Two parameter records that differ at most in pml_len and pml_max.
SameButLayer(p, q) == [p EXCEPT !.pml_len = q.pml_len, !.pml_max = q.pml_max] = q

\* The completed run_once calls of one mode.
SweepRuns(mode) ==
    {k \in 1..Len(done) : done[k].key.fn = "run_once" /\ done[k].key.mode = mode}

\* C22: the damping profile of a confined object is gamma_interior at every
\* node, and two completed confined runs of the same class whose parameters
\* differ only in pml_len and pml_max have the same trajectory, the same
\* outcome and the same metrics.
C22_ConfinedIgnoresLayer ==
    /\ (run.kind = "run_once" /\ run.sim.mode = "confined") =>
          \A v \in Nodes(run.sim.shape) : run.sim.gamma[v] = run.sim.p.gamma_interior
    /\ \A j \in SweepRuns("confined"), k \in SweepRuns("confined") :
          (done[j].key.dim = done[k].key.dim
           /\ SameButLayer(done[j].key.p, done[k].key.p)) =>
              /\ done[j].traj = done[k].traj
              /\ done[j].outcome = done[k].outcome
              /\ done[j].metrics = done[k].metrics

\* Two confined runs with different layer parameters have completed with
\* the same nonzero mean energy.
C22_Witness ==
    /\ Len(done) = 2
    /\ done[1].key.mode = "confined" /\ done[2].key.mode = "confined"
    /\ done[1].key.dim = done[2].key.dim
    /\ done[1].key.p.pml_len # done[2].key.p.pml_len
    /\ done[1].key.p.pml_max # done[2].key.p.pml_max
    /\ done[1].outcome = "returned"
    /\ done[1].metrics[1] > 0
    /\ done[1].metrics = done[2].metrics

\* The same pair of layer parameters in open mode gives different metrics.
C22_OpenDepends ==
    /\ Len(done) = 2
    /\ done[1].key.mode = "open" /\ done[2].key.mode = "open"
    /\ done[1].key.dim = done[2].key.dim
    /\ SameButLayer(done[1].key.p, done[2].key.p)
    /\ done[1].outcome = "returned" /\ done[2].outcome = "returned"
    /\ done[1].metrics # done[2].metrics

(***************************************************************************)
(* The drive phase of the field simulations against the phase-lock         *)
(* controller rule of the oscillator model.                                *)
(***************************************************************************)
\* The change the controller rule gives the phase error delta in one step
\* of length dt that draws deviate z: dt*(-K*sin(delta)) when locked, plus
\* the jitter strength times sqrt(dt) times z.
ControllerChange(locked, K, dt, sigma, delta, z) ==
    (IF locked THEN Mul(dt, Mul(-K, Sin(delta))) ELSE 0)
    + Mul(Mul(sigma, Sqrt(dt)), z)

\* C23: every step of a 1-D, 2-D or 3-D field object changes the drive
\* phase by what the controller rule gives for the phase error
\* phase - PHI_PI, the object's lock state, its step length and the first
\* deviate of the step.
C23_PhaseController ==
    [][\A i \in Slots :
          StepsNow(i) =>
             sims'[i].phase - sims[i].phase
               = ControllerChange(sims[i].lock_on, Sim2DLockGain, sims[i].p.dt,
                                  sims[i].p.phase_jitter,
                                  sims[i].phase - PHI_PI, Deviate(rng))]_vars

\* What the steppers do: the jitter is phase_jitter times the deviate, with
\* no factor sqrt(dt), and the lock term of Sim2D has no factor dt.
C23_PhaseAsCoded ==
    [][\A i \in Slots :
          StepsNow(i) =>
             sims'[i].phase - sims[i].phase
               = (IF sims[i].lock_on
                  THEN Mul(-Sim2DLockGain, Sin(sims[i].phase - PHI_PI))
                       + Mul(sims[i].p.phase_jitter, Deviate(rng))
                  ELSE Mul(Deviate(rng), sims[i].p.phase_jitter))]_vars

(***************************************************************************)
(* Active gain: the oscillator runs with G_gain below and above the base   *)
(* damping.                                                                *)
(***************************************************************************)
Gains == {0, 10, 50}
GainSteps == 2

GainParamSet ==
    {[ParamBase EXCEPT !.T = GainSteps * ParamBase.dt, !.G_gain = G] : G \in Gains}
GainSimSet ==
    {[SimBase EXCEPT !.T = GainSteps * SimBase.dt, !.G_gain = G] : G \in Gains}

CallParametricGain ==
    \E locked \in BOOLEAN, p \in GainParamSet, seed \in RunSeeds :
        Enter(ParamStart(locked, p, seed))

CallSimulateGain ==
    \E lock \in BOOLEAN, p \in GainSimSet, seed \in RunSeeds :
        Enter(SimStart(lock, p, seed))

NextGain ==
    \/ CallParametricGain
    \/ LoopParametric
    \/ ReturnParametric
    \/ CallSimulateGain
    \/ LoopSimulate
    \/ ReturnSimulate

SpecGain == Init /\ [][NextGain]_vars

\* The coefficient of v in the acceleration of simulate: what one unit of
\* velocity takes off the acceleration, all else equal.
SimVelocityCoefficient(rn) ==
    LET noise == SimNoise(rn, rng)
    IN  SimDerivatives(rn, 0, 0, rn.delta, rn.t, noise).v
        - SimDerivatives(rn, 0, ONE, rn.delta, rn.t, noise).v

\* The same coefficient in simulate_parametric, for the damping gamma_eff.
ParamVelocityCoefficient(rn, gamma_eff) ==
    ParamAcc(rn, rn.t, 0, 0, 0, gamma_eff, rn.delta, rng).a
    - ParamAcc(rn, rn.t, 0, ONE, 0, gamma_eff, rn.delta, rng).a

\* The damping of simulate_parametric before its noise perturbation.
ParamNoiseFreeDamping(rn) ==
    ParamPhase(rn, rng).gamma_eff
    - Mul(rn.p.sigma_gamma, Deviate(Advance(rng)))

\* C24: in a run with G_gain >= 0 the coefficient of v in the acceleration
\* is 2*max(0, baseDamping - G_gain) before noise, hence never negative, in
\* simulate_parametric and in simulate.
C24_DampingNeverNegative ==
    /\ (run.kind = "simulate_parametric" /\ run.p.G_gain >= 0) =>
          /\ ParamNoiseFreeDamping(run) = Max(0, run.gamma0 - run.p.G_gain)
          /\ ParamVelocityCoefficient(run, ParamNoiseFreeDamping(run))
               = 2 * Max(0, run.gamma0 - run.p.G_gain)
    /\ (run.kind = "simulate" /\ run.p.G_gain >= 0) =>
          /\ SimVelocityCoefficient(run) >= 0
          /\ SimVelocityCoefficient(run) = 2 * Max(0, run.gamma - run.p.G_gain)

\* The part of C24 about simulate_parametric, and what simulate applies:
\* 2*gamma - G_gain, unclamped.
C24_AsCoded ==
    /\ (run.kind = "simulate_parametric" /\ run.p.G_gain >= 0) =>
          /\ ParamNoiseFreeDamping(run) = Max(0, run.gamma0 - run.p.G_gain)
          /\ ParamVelocityCoefficient(run, ParamNoiseFreeDamping(run))
               = 2 * Max(0, run.gamma0 - run.p.G_gain)
    /\ run.kind = "simulate" =>
          SimVelocityCoefficient(run) = 2 * run.gamma - run.p.G_gain

\* A run of simulate whose velocity coefficient is negative.
C24_NegativeDamping ==
    run.kind = "simulate" /\ run.n > 0 /\ SimVelocityCoefficient(run) < 0

(***************************************************************************)
(* The generator draws of the oscillator runs.                             *)
(***************************************************************************)
\* Draws per loop iteration: simulate_parametric draws the phase jitter,
\* the damping fluctuation and one acceleration noise in each of the four
\* acc calls; simulate draws the phase noise and the drive noise.
ParamDrawsPerStep == 6
SimDrawsPerStep == 2
\* simulate draws the initial delta before its loop.
SimInitialDraws == 1

\* C25: whatever the lock flag, the generator of a run stands, after n loop
\* iterations, at position 6*n of its seed's sequence in simulate_parametric
\* and at position 1 + 2*n in simulate, and each iteration has made 6,
\* respectively 2, draws.
C25_DrawsIgnoreLock ==
    /\ run.kind = "simulate_parametric" =>
          /\ rng = [seed |-> run.key.seed, pos |-> ParamDrawsPerStep * run.n]
          /\ run.n > 0 => run.stepDraws = ParamDrawsPerStep
    /\ run.kind = "simulate" =>
          /\ rng = [seed |-> run.key.seed,
                    pos |-> SimInitialDraws + SimDrawsPerStep * run.n]
          /\ run.n > 0 => run.stepDraws = SimDrawsPerStep

\* A locked run of simulate has completed and an unlocked run with the same
\* seed and parameters has made the same two or more steps.
C25_Witness ==
    /\ Len(done) = 1
    /\ done[1].key.fn = "simulate" /\ done[1].key.flag
    /\ done[1].outcome = "returned"
    /\ run.kind = "simulate" /\ ~run.flag
    /\ run.key.seed = done[1].key.seed /\ run.key.p = done[1].key.p
    /\ run.n = run.steps /\ run.n >= 2

(***************************************************************************)
(* The undriven field.                                                     *)
(***************************************************************************)
\* The 1-D and 3-D objects constructed with drive amplitude 0.
Undriven == {i \in Alive : sims[i].dim \in {1, 3} /\ sims[i].p.A = 0}

\* C26: a WaveCavity or Wave3D with A = 0 holds 0 at every node of its
\* three buffers after any number of steps, in either mode, and its
\* energy() is 0.
C26_UndrivenStaysZero ==
    \A i \in Undriven :
        /\ \A b \in 1..3 : \A v \in Nodes(sims[i].shape) : sims[i].bufs[b][v] = 0
        /\ RunOnceEnergy(sims[i]) = 0

\* An undriven open object has taken every step the model allows, and its
\* drive phase has moved.
C26_Witness ==
    \E i \in Undriven :
        /\ sims[i].n = MaxSteps
        /\ sims[i].mode = "open"
        /\ sims[i].shape[1] >= 3
        /\ sims[i].phase # PHI_PI

(***************************************************************************)
(* Short runs of run_once: too few steps for a post-burn-in sample.        *)
(***************************************************************************)
ShortStepCounts == 0..3

ShortCavitySet ==
    {[p EXCEPT !.steps = S] :
        p \in {q \in RunCavitySet : q.dt = 50 /\ q.steps = MaxRunSteps},
        S \in ShortStepCounts}

ShortP3DSet ==
    {[p EXCEPT !.steps = S] :
        p \in {q \in RunP3DSet : q.steps = MaxRunSteps}, S \in ShortStepCounts}

CallRunOnceShort ==
    \/ \E mode \in Modes, p \in ShortCavitySet : Enter(RunOnceStart(1, mode, p))
    \/ \E mode \in Modes, p \in ShortP3DSet : Enter(RunOnceStart(3, mode, p))

NextShort ==
    \/ CallRunOnceShort
    \/ LoopRunOnce
    \/ ReturnRunOnce

SpecShort == Init /\ [][NextShort]_vars

\* run_once ends in this transition.
RunOnceEnds == run.kind = "run_once" /\ run'.kind = "idle"

\* C27: when run_once ends, it has collected no sample exactly if steps <= 2;
\* with a sample it returns the pair (mean, peak) of the samples, and with
\* none it raises the error of the mean of an empty sequence and returns
\* nothing.
C27_RunOnceReturn ==
    [][RunOnceEnds =>
          LET out == done'[Len(done')]
          IN  /\ (run.energies = <<>>) = (run.steps <= 2)
              /\ run.energies # <<>> =>
                    /\ out.outcome = "returned"
                    /\ out.metrics = <<FMean(run.energies), MaxSeq(run.energies)>>
              /\ run.energies = <<>> =>
                    /\ out.outcome = "raised"
                    /\ out.err = "StatisticsError"
                    /\ out.metrics = <<>>]_vars

\* A run of two steps has raised and a run of three steps has returned a
\* pair with a nonzero mean.
C27_Witness ==
    /\ Len(done) = 2
    /\ done[1].steps = 2 /\ done[1].outcome = "raised"
    /\ done[2].steps = 3 /\ done[2].outcome = "returned"
    /\ Len(done[2].metrics) = 2 /\ done[2].metrics[1] > 0

(***************************************************************************)
(* The seed field of ParamParams against the seed argument of              *)
(* simulate_parametric, as in run_demo (field 7, argument 11).             *)
(***************************************************************************)
SeedFields == {2, 7}
SeedFieldSteps == 3

SeedFieldParamSet ==
    {[ParamBase EXCEPT !.T = SeedFieldSteps * ParamBase.dt, !.seed = f] :
        f \in SeedFields}

CallParametricSeedField ==
    \E locked \in BOOLEAN, p \in SeedFieldParamSet, seed \in RunSeeds :
        Enter(ParamStart(locked, p, seed))

NextSeedField ==
    \/ CallParametricSeedField
    \/ LoopParametric
    \/ ReturnParametric

SpecSeedField == Init /\ [][NextSeedField]_vars

\* Two parameter records that differ at most in their seed field.
SameButSeed(p, q) == [p EXCEPT !.seed = q.seed] = q

\* C28: two completed calls of simulate_parametric with the same lock flag
\* and seed argument, and parameters that differ only in the seed field,
\* have the same trajectory, outcome and metrics.
C28_SeedFieldUnread ==
    \A j \in 1..Len(done), k \in 1..Len(done) :
        (/\ done[j].key.fn = "simulate_parametric"
         /\ done[k].key.fn = "simulate_parametric"
         /\ done[j].key.flag = done[k].key.flag
         /\ done[j].key.seed = done[k].key.seed
         /\ SameButSeed(done[j].key.p, done[k].key.p)) =>
            /\ done[j].traj = done[k].traj
            /\ done[j].outcome = done[k].outcome
            /\ done[j].metrics = done[k].metrics

\* Two calls with different seed fields and the same seed argument have
\* returned after the same noisy trajectory.
C28_Witness ==
    /\ Len(done) = 2
    /\ done[1].key.p.seed # done[2].key.p.seed
    /\ done[1].key.seed = done[2].key.seed
    /\ done[1].key.flag = done[2].key.flag
    /\ done[1].outcome = "returned"
    /\ Len(done[1].traj) = SeedFieldSteps
    /\ done[1].traj = done[2].traj
    /\ done[1].traj[SeedFieldSteps][3] # 0

\* The seed argument does matter: two calls that differ only in it have
\* different trajectories.
C28_SeedArgumentRead ==
    /\ Len(done) = 2
    /\ done[1].key.p = done[2].key.p
    /\ done[1].key.flag = done[2].key.flag
    /\ done[1].key.seed # done[2].key.seed
    /\ done[1].traj # done[2].traj

(***************************************************************************)
(* Where the force lands.                                                  *)
(***************************************************************************)
\* A drive large enough for dt*dt*drive to be nonzero at every step length.
ProbeDrive == 100 * ONE

\* The nodes the source statement of object s changes, found by applying it
\* to an all-zero buffer.
ForcedNodes(s) ==
    LET B == IF s.dim = 1 THEN CavitySource(s, Zeros(s.shape), ProbeDrive)
             ELSE IF s.dim = 2 THEN Source2D(s, Zeros(s.shape), ProbeDrive)
             ELSE Source3D(s, Zeros(s.shape), ProbeDrive)
    IN  {v \in Nodes(s.shape) : B[v] # 0}

\* The objects whose grid has at least three nodes along every axis.
Roomy == {i \in Alive : \A axis \in 1..sims[i].dim : Extent(sims[i], axis) >= 3}

\* C29: on every grid with at least three nodes per axis, whatever the
\* configured source index, the source statement changes exactly one node,
\* that node is inside the outermost ring, and it is the node the object
\* records as its source.
C29_ForcingInterior ==
    \A i \in Roomy :
        /\ Cardinality(ForcedNodes(sims[i])) = 1
        /\ ForcedNodes(sims[i]) \subseteq Inner(sims[i])
        /\ ForcedNodes(sims[i]) = {sims[i].src}

\* A 1-D object configured with a source index beyond the grid has stepped
\* and carries the force at an interior node.
C29_Witness ==
    \E i \in Roomy \cap Stepped :
        /\ sims[i].dim = 1
        /\ sims[i].p.i_src >= sims[i].p.N
        /\ Cur(i)[sims[i].p.N - 2] # 0

\* The same for a negative source index.
C29_NegativeIndex ==
    \E i \in Roomy \cap Stepped :
        /\ sims[i].dim = 1
        /\ sims[i].p.i_src < 0
        /\ Cur(i)[1] # 0

(***************************************************************************)
(* A rejected construction while another object is in use.                 *)
(***************************************************************************)
RejectCavitySet ==
    {p \in CavityParamSet : p.N = 3 /\ p.pml_len = 1 /\ p.i_src = 1 /\ p.A = 60}
RejectP3DSet ==
    {p \in P3DParamSet : p.N = 2 /\ p.pml_len = 1 /\ p.A = 70}

\* Object 1 is built and stepped; a second construction, with a Courant
\* number on either side of the limit, happens at any point.
NextReject ==
    \/ ~ctor[1].called /\ NewCavity(1, {p \in PairCavitySet : p.dt = 50})
    \/ Step(1)
    \/ ~ctor[2].called /\ NewCavity(2, RejectCavitySet)
    \/ ~ctor[2].called /\ NewWave3D(2, RejectP3DSet)
    \/ Step(2)

SpecReject == Init /\ [][NextReject]_vars

\* Slot i's constructor is called in this transition and raises.
RejectedNow(i) == ~ctor[i].called /\ ctor'[i].called /\ ~ctor'[i].ok

\* The seeds of the configurations whose Courant number is over the limit.
RejectedSeeds(dim) ==
    IF dim = 1
    THEN {p.seed : p \in {q \in RejectCavitySet :
                            CourantViolated(1, Div(Mul(q.c, q.dt), q.dx))}}
    ELSE {p.seed : p \in {q \in RejectP3DSet :
                            CourantViolated(3, Div(Mul(q.c, q.dt), q.dx))}}

\* C30: a WaveCavity or Wave3D construction that is rejected leaves the
\* generator at the start of the sequence of the configuration's seed,
\* wherever it stood before, and leaves no object and no buffers.
C30_RejectedStillReseeds ==
    [][\A i \in Slots :
          RejectedNow(i) =>
             /\ rng'.pos = 0
             /\ rng'.seed \in RejectedSeeds(ctor'[i].dim)
             /\ sims'[i] = NoSim
             /\ CourantViolated(ctor'[i].dim, ctor'[i].r)]_vars

\* Object 1 has stepped, so the generator had advanced, and the rejected
\* 3-D construction has put it back at the start of a seed's sequence.
C30_Witness ==
    /\ sims[1].dim = 1 /\ sims[1].n >= 1
    /\ ctor[2].called /\ ~ctor[2].ok /\ ctor[2].dim = 3
    /\ sims[2] = NoSim
    /\ rng.pos = 0

\* The same for a rejected 1-D construction with a seed other than that of
\* object 1.
C30_OtherSeed ==
    /\ sims[1].dim = 1 /\ sims[1].n >= 1
    /\ ctor[2].called /\ ~ctor[2].ok /\ ctor[2].dim = 1
    /\ rng = SeedRng(5) /\ sims[1].own_seed = 4

====
